---- MODULE Spec2Model ----
(***************************************************************************)
(* Price caching engine of goal-folio-firebase: the read-through intraday  *)
(* cache (getIntradayPrices, getRecentOpenDay), its freshness policy       *)
(* (getCachedIntradayPrices, getCachedAggregatePrices, isMarketOpen), the  *)
(* fallback resolver (findRecentCachedData) and the daily upsert.          *)
(*                                                                         *)
(* Instants are whole minutes counted from Monday 00:00 UTC of week 0; the *)
(* code's millisecond arithmetic is scaled by 60000 (every instant of the  *)
(* model is a whole minute).  The functions run with the process time zone *)
(* UTC, as Cloud Functions do, so the Date getters read UTC fields.        *)
(***************************************************************************)
EXTENDS Integers, Sequences, FiniteSets, TLC

VARIABLES
  now,        \* the wall clock (new Date()), in minutes
  ticks,      \* how often the clock has advanced
  reqNo,      \* how many requests have been handled
  intraday,   \* stocks/{SYM}/prices/intraday_{date}: doc id -> document
  aggregate,  \* stocks/{SYM}/prices/{daily|weekly|monthly}: doc id -> document
  req,        \* the last request
  resp,       \* its response
  ops,        \* the store reads, upstream fetches and store writes it made, in order
  aggRead,    \* the last getCachedAggregatePrices call and what it returned
  daily,      \* the candles handed to aggregateToDaily and what it returned
  rollup,     \* a daily map, and what aggregateToWeekly and aggregateToMonthly made of it
  market,     \* the last isMarketOpen call and what it returned
  flight,     \* getIntradayPrices requests in flight, each at one of its awaits
  upserts,    \* updateDailyPrice calls in flight, each before or after its set()
  openDay,    \* a provider response, and what getRecentOpenDayCandles made of it
  fresh       \* the last getCachedIntradayPrices call, and the reads that found an entry expired

vars == <<now, ticks, reqNo, intraday, aggregate, req, resp, ops, aggRead, daily, rollup, market, flight, upserts, openDay, fresh>>

---------------------------------------------------------------------------
(* Bounds of the model *)

MaxReq == 2
MaxTicks == 2

MinPerDay == 24 * 60

\* Friday of week 0, 09:20 in New York (EST), ten minutes before the open
StartTimes == { 4 * MinPerDay + 14 * 60 + 20 }

\* a quarter of an hour, a day, a weekend
Deltas == { 15, MinPerDay, 3 * MinPerDay }

MissingSymbols == { "", " " }
SymbolInputs == { "aapl" }
IntervalInputs == { "15min", "5min" }

\* the store call of one request that throws: none, its first read, the
\* intraday write, the daily upsert
Faults == { "none", "read", "write", "upsert" }
NoMonth == ""
MonthInputs == { NoMonth, "2025-10" }

---------------------------------------------------------------------------
(* utils/date *)

\* Date.getDay() of an instant: 0 = Sunday ... 6 = Saturday (day 0 is a Monday)
getDay(t) == (((t \div MinPerDay) % 7) + 1) % 7

\* a YYYY-MM-DD string is modelled by its day number, a YYYY-MM string by its text
DateKey(d) == <<"date", d, "">>
MonthKey(m) == <<"month", 0, m>>

toDateString(t) == DateKey(t \div MinPerDay)

getTodayString(t) == toDateString(t)

getDaysAgoString(t, daysAgo) == toDateString(t - daysAgo * MinPerDay)

\* a Date written to Firestore is stored as a Timestamp {seconds, nanoseconds}
Timestamp(t) == [seconds |-> t * 60, nanoseconds |-> 0]

\* Timestamp.toDate(), as toDate() and the lastUpdated conversion use it
toDate(ts) == (ts.seconds + ts.nanoseconds \div 1000000000) \div 60

\* toISOString of a Date (toDate returns a Date as it is):
\* "YYYY-MM-DD" "T" "HH:MM:00.000Z"
toISOString(t) == [date |-> DateKey(t \div MinPerDay), time |-> t % MinPerDay]

\* isoString.split("T")[0]
DatePart(iso) == iso.date

\* America/New_York against UTC, in minutes (standard time)
NewYorkOffset == 5 * 60

\* a market that is still open at 16:00
OpenAtTheClose(t) ==
  LET et == t - NewYorkOffset
  IN getDay(et) \notin {0, 6} /\ et % MinPerDay >= 9 * 60 + 30 /\ et % MinPerDay <= 16 * 60

isMarketOpen(t) ==
  LET et == t - NewYorkOffset
      day == getDay(et)
      currentMinutes == et % MinPerDay
      marketOpen == 9 * 60 + 30
      marketClose == 16 * 60
  IN IF day = 0 \/ day = 6 THEN FALSE
     ELSE currentMinutes >= marketOpen /\ currentMinutes < marketClose

\* parseEasternTime: the provider's wall-clock stamp plus a fixed five hours
parseEasternTime(timestamp) == timestamp + 5 * 60

\* two instants less than a day apart taken for the same day
WithinADay(date1, date2) == date1 - date2 < MinPerDay /\ date2 - date1 < MinPerDay

isSameDay(date1, date2) == date1 \div MinPerDay = date2 \div MinPerDay

---------------------------------------------------------------------------
(* priceCache.service: TTLs, in minutes *)

CACHE_TTL ==
  [ intraday |-> 15,
    intradayAfterClose |-> 24 * 60,
    daily |-> 24 * 60,
    weekly |-> 7 * 24 * 60,
    monthly |-> 30 * 24 * 60 ]

Granularities == { "daily", "weekly", "monthly" }

\* the value of a function that returns T | null
Null == [isNull |-> TRUE, val |-> <<>>]
Some(v) == [isNull |-> FALSE, val |-> v]

DocId(symbol, key) == <<symbol, key>>

ToUpperCase(s) == IF s = "aapl" THEN "AAPL" ELSE s

trim(s) == IF s = " " THEN "" ELSE s

\* a freshness test that already expires an entry at the TTL itself
ExpiredAtTTL(age, ttl) == age >= ttl

\* if (age > ttl) return null
Expired(age, ttl) == age > ttl

\* a TTL that never looks at the market
MarketBlindTTL(t) == CACHE_TTL.intradayAfterClose

\* the two TTLs taken for each other
InvertedTTL(t) ==
  IF isMarketOpen(t) THEN CACHE_TTL.intradayAfterClose ELSE CACHE_TTL.intraday

IntradayTTL(t) ==
  IF isMarketOpen(t) THEN CACHE_TTL.intraday ELSE CACHE_TTL.intradayAfterClose

\* the candles as read back: { ...candle, time: toDate(candle.time) }
ReadCandles(stored) ==
  [i \in 1..Len(stored) |-> [stored[i] EXCEPT !.time = toDate(stored[i].time)]]

\* the candles as Firestore stores them: every Date becomes a Timestamp
StoreCandles(candles) ==
  [i \in 1..Len(candles) |-> [candles[i] EXCEPT !.time = Timestamp(candles[i].time)]]

\* a lookup that never compares intervals
NeverMismatch(stored, requested) == FALSE

IntervalMismatch(stored, requested) == stored # requested

\* what getCachedIntradayPrices returns, with the line it logs on the way out
Miss(log) == [isNull |-> TRUE, val |-> <<>>, log |-> log]
Hit(candles) == [isNull |-> FALSE, val |-> candles, log |-> "Intraday cache hit"]

\* getCachedIntradayPrices: `throws` says whether the store read throws
getCachedIntradayPrices(store, symbol, date, interval, t, throws) ==
  LET id == DocId(ToUpperCase(symbol), date) IN
  IF throws THEN Miss("Error reading intraday cache")
  ELSE IF id \notin DOMAIN store THEN Miss("Intraday cache miss")
  ELSE LET data == store[id]
           age == t - toDate(data.lastUpdated)
       IN IF IntervalMismatch(data.interval, interval)
          THEN Miss("Interval mismatch in cache")
          ELSE IF Expired(age, IntradayTTL(t)) THEN Miss("Intraday cache expired")
          ELSE Hit(ReadCandles(data.candles))

IntradayDoc(symbol, date, interval, candles, t) ==
  [ date |-> date,
    interval |-> interval,
    symbol |-> ToUpperCase(symbol),
    candles |-> StoreCandles(candles),
    lastUpdated |-> Timestamp(t) ]

\* a write that puts the new candles after those the document holds
KeepsOldCandles(store, id, data) ==
  [k \in DOMAIN store \cup {id} |->
     IF k # id THEN store[k]
     ELSE IF id \in DOMAIN store /\ "candles" \in DOMAIN data
          THEN [data EXCEPT !.candles = store[id].candles \o @]
          ELSE data]

\* a write that leaves the interval of the document it finds
KeepsOldInterval(store, id, data) ==
  [k \in DOMAIN store \cup {id} |->
     IF k # id THEN store[k]
     ELSE IF id \in DOMAIN store /\ "interval" \in DOMAIN data
          THEN [data EXCEPT !.interval = store[id].interval]
          ELSE data]

\* docRef.set(data): the document is replaced as a whole
SetDoc(store, id, data) ==
  [k \in DOMAIN store \cup {id} |-> IF k = id THEN data ELSE store[k]]

\* cacheIntradayPrices: a store error is logged and swallowed
cacheIntradayPrices(store, symbol, date, interval, candles, t, throws) ==
  IF throws THEN store
  ELSE SetDoc(store, DocId(ToUpperCase(symbol), date),
              IntradayDoc(symbol, date, interval, candles, t))

\* the low of the first candle for the low of the day
FirstLow(candles) == candles[1].low

\* the volume of the last candle for the volume of the day
LastVolume(candles) == IF candles = <<>> THEN 0 ELSE candles[Len(candles)].volume

\* the high of the last candle for the high of the day
LastHigh(candles) == candles[Len(candles)].high

\* Math.max / Math.min / reduce over the candles
RECURSIVE MaxHigh(_), MinLow(_), SumVolume(_)
MaxHigh(candles) ==
  IF Len(candles) = 1 THEN candles[1].high
  ELSE LET m == MaxHigh(Tail(candles))
       IN IF candles[1].high >= m THEN candles[1].high ELSE m

MinLow(candles) ==
  IF Len(candles) = 1 THEN candles[1].low
  ELSE LET m == MinLow(Tail(candles))
       IN IF candles[1].low <= m THEN candles[1].low ELSE m

SumVolume(candles) ==
  IF candles = <<>> THEN 0 ELSE candles[1].volume + SumVolume(Tail(candles))

aggregateToDaily(candles) ==
  IF Len(candles) = 0 THEN Null
  ELSE Some([ time |-> candles[1].time,
              open |-> candles[1].open,
              high |-> MaxHigh(candles),
              low |-> MinLow(candles),
              close |-> candles[Len(candles)].close,
              volume |-> SumVolume(candles) ])

---------------------------------------------------------------------------
(* utils/date: the calendar.  Instant 0 is Monday 1969-12-29 00:00 UTC; the
   process runs in UTC, so that the local getters of a Date are its UTC ones *)

MinPerWeek == 7 * MinPerDay

Years == 2019..2026

IsLeap(y) == (y % 4 = 0 /\ y % 100 # 0) \/ y % 400 = 0

DaysInMonth(y, m) ==
  IF m = 2 THEN (IF IsLeap(y) THEN 29 ELSE 28)
  ELSE IF m \in {4, 6, 9, 11} THEN 30 ELSE 31

\* the days from 1970-01-01 to January 1 of year y
DaysBeforeYear(y) ==
  365 * (y - 1970) + ((y - 1) \div 4 - (y - 1) \div 100 + (y - 1) \div 400) - 477

RECURSIVE DaysBeforeMonth(_, _)
DaysBeforeMonth(y, m) ==
  IF m = 1 THEN 0 ELSE DaysBeforeMonth(y, m - 1) + DaysInMonth(y, m - 1)

\* a "YYYY-MM-DD" string
Ymd(y, m, d) == [y |-> y, m |-> m, d |-> d]

\* new Date(y, m - 1, d), at midnight
DateAt(y, m, d) ==
  (3 + DaysBeforeYear(y) + DaysBeforeMonth(y, m) + (d - 1)) * MinPerDay

\* new Date("YYYY-MM-DD"): midnight UTC of that day
NewDate(dateStr) == DateAt(dateStr.y, dateStr.m, dateStr.d)

getFullYear(date) ==
  CHOOSE y \in Years : DateAt(y, 1, 1) <= date /\ date < DateAt(y + 1, 1, 1)

\* Math.ceil(a / b) for b > 0
Ceil(a, b) == -((-a) \div b)

\* getISOWeek(date), lines 133-143
getISOWeek(date) ==
  LET dayNr == (getDay(date) + 6) % 7
      \* target.setDate(target.getDate() - dayNr + 3)
      firstThursday == date + (3 - dayNr) * MinPerDay
      \* target.setMonth(0, 1)
      jan1 == DateAt(getFullYear(firstThursday), 1, 1) + (firstThursday % MinPerDay)
      \* if (target.getDay() !== 4) target.setMonth(0, 1 + ((4 - target.getDay() + 7) % 7))
      target == IF getDay(jan1) # 4
                THEN jan1 + ((4 - getDay(jan1) + 7) % 7) * MinPerDay
                ELSE jan1
  IN 1 + Ceil(firstThursday - target, MinPerWeek)

---------------------------------------------------------------------------
(* priceCache.service: weekly and monthly aggregation.  A Record<string,
   PriceCandle> is the sequence of its entries in the order Object.entries
   lists them, the order of insertion *)

\* `${year}-W${week.toString().padStart(2, "0")}`
WeekString(year, week) == <<"week", year, week>>

\* the week key of a daily entry, lines 303-306
weekKey(dateStr) ==
  LET date == NewDate(dateStr)
  IN WeekString(getFullYear(date), getISOWeek(date))

\* a month key that keeps the year alone
YearOnly(dateStr) == <<"month", dateStr.y, 0>>

\* dateStr.substring(0, 7)
monthKey(dateStr) == <<"month", dateStr.y, dateStr.m>>

\* if (!groups[key]) groups[key] = []; groups[key].push(candle)
RECURSIVE Grouped(_)
Grouped(keyed) ==
  IF keyed = <<>> THEN <<>>
  ELSE LET groups == Grouped(SubSeq(keyed, 1, Len(keyed) - 1))
           e == keyed[Len(keyed)]
       IN IF \E g \in 1..Len(groups) : groups[g].key = e.key
          THEN LET g == CHOOSE g \in 1..Len(groups) : groups[g].key = e.key
               IN [groups EXCEPT ![g].candles = Append(@, e.candle)]
          ELSE Append(groups, [key |-> e.key, candles |-> <<e.candle>>])

\* const aggregated = aggregateToDaily(candles); if (aggregated) result[key] = aggregated
AggregateEach(groups) ==
  LET folded == [g \in 1..Len(groups) |->
                   [key |-> groups[g].key, agg |-> aggregateToDaily(groups[g].candles)]]
      kept == SelectSeq(folded, LAMBDA f : ~f.agg.isNull)
  IN [g \in 1..Len(kept) |-> [key |-> kept[g].key, val |-> kept[g].agg.val]]

\* an aggregation whose answer depends on whether it has answered before
Remembered(dailyPrices) == IF rollup.weekly.isNull THEN <<>> ELSE dailyPrices

aggregateToWeekly(dailyPrices) ==
  AggregateEach(Grouped([i \in 1..Len(dailyPrices) |->
                           [key |-> weekKey(dailyPrices[i].key),
                            candle |-> dailyPrices[i].val]]))

aggregateToMonthly(dailyPrices) ==
  AggregateEach(Grouped([i \in 1..Len(dailyPrices) |->
                           [key |-> monthKey(dailyPrices[i].key),
                            candle |-> dailyPrices[i].val]]))

\* An aggregate document.  hasPrices: the document has a `prices` field;
\* dotted: its top-level fields named "prices.<date>", which set(..., {merge:
\* true}) writes as they are spelled (only update() reads a dotted key as a path).
AggregateDoc(symbol, granularity, hasPrices, prices, dotted, t) ==
  [ symbol |-> ToUpperCase(symbol),
    granularity |-> granularity,
    hasPrices |-> hasPrices,
    prices |-> prices,
    dotted |-> dotted,
    lastUpdated |-> Timestamp(t) ]

EmptyMap == [k \in {} |-> 0]

AggregateTTL(granularity) ==
  IF granularity = "daily" THEN CACHE_TTL.daily
  ELSE IF granularity = "weekly" THEN CACHE_TTL.weekly
  ELSE CACHE_TTL.monthly

\* data.prices: the field's map, or undefined when the document has no such field
NullPrices == [kind |-> "null", val |-> EmptyMap]
PricesOf(data) ==
  IF data.hasPrices THEN [kind |-> "map", val |-> data.prices]
  ELSE [kind |-> "undefined", val |-> EmptyMap]

\* getCachedAggregatePrices: data.prices of a fresh document, else null
getCachedAggregatePrices(store, symbol, granularity, t, throws) ==
  LET id == DocId(ToUpperCase(symbol), granularity) IN
  IF throws THEN NullPrices
  ELSE IF id \notin DOMAIN store THEN NullPrices
  ELSE LET data == store[id]
           age == t - toDate(data.lastUpdated)
       IN IF Expired(age, AggregateTTL(granularity)) THEN NullPrices
          ELSE PricesOf(data)

StoreCandle(candle) == [candle EXCEPT !.time = Timestamp(candle.time)]

StorePrices(prices) == [k \in DOMAIN prices |-> StoreCandle(prices[k])]

\* cacheAggregatePrices: docRef.set(data), the whole document replaced
cacheAggregatePrices(store, symbol, granularity, prices, t, throws) ==
  IF throws THEN store
  ELSE SetDoc(store, DocId(ToUpperCase(symbol), granularity),
              AggregateDoc(symbol, granularity, TRUE, StorePrices(prices),
                           EmptyMap, t))

\* updateDailyPrice: docRef.set({symbol, granularity, ["prices." + date]: candle,
\* lastUpdated: serverTimestamp()}, {merge: true})
updateDailyPrice(store, symbol, date, candle, t, throws) ==
  LET id == DocId(ToUpperCase(symbol), "daily")
      old == IF id \in DOMAIN store THEN store[id]
             ELSE AggregateDoc(symbol, "daily", FALSE, EmptyMap, EmptyMap, t)
      dotted == [k \in DOMAIN old.dotted \cup {date} |->
                   IF k = date THEN StoreCandle(candle) ELSE old.dotted[k]]
  IN IF throws THEN store
     ELSE SetDoc(store, id,
                 AggregateDoc(symbol, "daily", old.hasPrices, old.prices, dotted, t))

---------------------------------------------------------------------------
(* alphavantage.service: the provider and fetchIntradayPrices *)

RECURSIVE PrevWeekday(_)
PrevWeekday(d) == IF d % 7 < 5 THEN d ELSE PrevWeekday(d - 1)

\* the New York day of the latest session that has opened by instant t
LastSessionDay(t) ==
  LET et == t - NewYorkOffset
      d == et \div MinPerDay
  IN IF d % 7 < 5 /\ et % MinPerDay >= 9 * 60 + 30 THEN d ELSE PrevWeekday(d - 1)

DataPoint(day, minute, o, h, l, c, v) ==
  [timestamp |-> day * MinPerDay + minute, open |-> o, high |-> h, low |-> l,
   close |-> c, volume |-> v]

\* "Time Series (...)" of a response, newest first as the provider lists it:
\* the latest session alone, or its first bar after the previous session's last
TimeSeriesA(t) ==
  LET s == LastSessionDay(t)
  IN << DataPoint(s, 9 * 60 + 45, 11, 13, 10, 12, 200),
        DataPoint(s, 9 * 60 + 30, 10, 12, 9, 11, 100) >>

TimeSeriesB(t) ==
  LET s == LastSessionDay(t)
  IN << DataPoint(s, 9 * 60 + 30, 12, 14, 11, 13, 50),
        DataPoint(PrevWeekday(s - 1), 15 * 60 + 45, 9, 10, 8, 9, 70) >>

\* what the provider may answer at instant t
Responses(t) ==
  { [kind |-> "http-error", series |-> <<>>],
    [kind |-> "error-message", series |-> <<>>],
    [kind |-> "note", series |-> <<>>],
    [kind |-> "no-series", series |-> <<>>],
    [kind |-> "series", series |-> TimeSeriesA(t)],
    [kind |-> "series", series |-> TimeSeriesB(t)] }

ParsePoint(p) ==
  [time |-> parseEasternTime(p.timestamp), open |-> p.open, high |-> p.high,
   low |-> p.low, close |-> p.close, volume |-> p.volume]

\* the candles left in the order the provider lists them
Unsorted(candles) == candles

\* prices.sort((a, b) => a.time - b.time)
RECURSIVE Insert(_, _), SortByTime(_)
Insert(c, sorted) ==
  IF sorted = <<>> THEN <<c>>
  ELSE IF c.time < sorted[1].time THEN <<c>> \o sorted
  ELSE <<sorted[1]>> \o Insert(c, Tail(sorted))

SortByTime(candles) ==
  IF candles = <<>> THEN <<>>
  ELSE Insert(candles[Len(candles)], SortByTime(SubSeq(candles, 1, Len(candles) - 1)))

\* fetchIntradayPrices: throws, or [] on a rate-limit note, or the sorted candles
Threw == [threw |-> TRUE, val |-> <<>>]
Returned(v) == [threw |-> FALSE, val |-> v]

\* a fetch that takes the provider's throttling note for a failure
NoteIsError(response) ==
  IF response.kind = "series"
  THEN Returned(SortByTime([i \in 1..Len(response.series) |->
                              ParsePoint(response.series[i])]))
  ELSE Threw

fetchIntradayPrices(response) ==
  IF response.kind = "http-error" THEN Threw
  ELSE IF response.kind = "error-message" THEN Threw
  ELSE IF response.kind = "note" THEN Returned(<<>>)
  ELSE IF response.kind = "no-series" THEN Threw
  ELSE Returned(SortByTime([i \in 1..Len(response.series) |->
                              ParsePoint(response.series[i])]))

RECURSIVE Filter(_, _)
Filter(candles, last) ==
  IF candles = <<>> THEN <<>>
  ELSE (IF isSameDay(last, candles[1].time) THEN <<candles[1]>> ELSE <<>>)
       \o Filter(Tail(candles), last)

\* getRecentOpenDayCandles: the candles of the day of the last one
getRecentOpenDayCandles(response) ==
  LET f == fetchIntradayPrices(response) IN
  IF f.threw THEN Threw
  ELSE IF Len(f.val) = 0 THEN Returned(<<>>)
  ELSE Returned(Filter(f.val, f.val[Len(f.val)].time))

---------------------------------------------------------------------------
(* cacheHelper.service: findRecentCachedData *)

intervals == <<"15min", "60min", "30min", "5min", "1min">>

\* the preferred interval probed again among the others
PreferredTwice(preferredInterval) == <<preferredInterval>> \o intervals

\* the preferred interval probed after the others
PreferredLast(preferredInterval) ==
  SelectSeq(intervals, LAMBDA i : i # preferredInterval) \o <<preferredInterval>>

\* the intervals probed for one date: the preferred one, then the others
DayProbes(preferredInterval) ==
  <<preferredInterval>> \o SelectSeq(intervals, LAMBDA i : i # preferredInterval)

RECURSIVE ProbeList(_, _, _)
ProbeList(t, preferredInterval, daysBack) ==
  IF daysBack > 5 THEN <<>>
  ELSE LET dateStr == getDaysAgoString(t, daysBack)
           day == DayProbes(preferredInterval)
       IN [i \in 1..Len(day) |-> [date |-> dateStr, interval |-> day[i]]]
          \o ProbeList(t, preferredInterval, daysBack + 1)

ReadOp(date, interval, r) ==
  [op |-> "read", date |-> date, interval |-> interval, out |-> r.log]

\* if (cachedPrices && cachedPrices.length > 0)
NonEmptyHit(r) == ~r.isNull /\ Len(r.val) > 0

\* a resolver that asks the provider itself before it gives up
NotFoundFetched(trace) ==
  [isNull |-> TRUE, candles |-> <<>>, actualInterval |-> "",
   trace |-> Append(trace, [op |-> "fetch", date |-> <<"null", 0, "">>,
                            interval |-> "", out |-> "empty"])]

NotFound(trace) ==
  [isNull |-> TRUE, candles |-> <<>>, actualInterval |-> "", trace |-> trace]

\* the loops of findRecentCachedData over the probes from the i-th on;
\* failing: the probes whose store read throws
RECURSIVE Probe(_, _, _, _, _, _, _)
Probe(store, symbol, probes, i, t, failing, trace) ==
  IF i > Len(probes) THEN NotFound(trace)
  ELSE LET p == probes[i]
           r == getCachedIntradayPrices(store, symbol, p.date, p.interval, t,
                                        i \in failing)
           tr == Append(trace, ReadOp(p.date, p.interval, r))
       IN IF NonEmptyHit(r)
          THEN [isNull |-> FALSE, candles |-> r.val,
                actualInterval |-> p.interval, trace |-> tr]
          ELSE Probe(store, symbol, probes, i + 1, t, failing, tr)

findRecentCachedData(store, symbol, preferredInterval, t, failing) ==
  Probe(store, ToUpperCase(symbol), ProbeList(t, preferredInterval, 0), 1, t,
        failing, <<>>)

---------------------------------------------------------------------------
(* functions/stockPrices: the two callable handlers *)

validIntervals == <<"1min", "5min", "15min", "30min", "60min">>

includes(seq, x) == \E i \in 1..Len(seq) : seq[i] = x

\* request.data.interval || fallback
OrDefault(x, fallback) == IF x = "" THEN fallback ELSE x

\* a handler that takes the requested interval as it comes
Unvalidated(requestedInterval) == requestedInterval

EffectiveInterval(requestedInterval) ==
  IF includes(validIntervals, requestedInterval) THEN requestedInterval ELSE "60min"

\* a validation that lets a symbol of blanks through
OnlyEmptyMissing(symbol) == symbol = ""

\* !symbol || symbol.trim().length === 0
SymbolMissing(symbol) == symbol = "" \/ trim(symbol) = ""

\* a handler that takes whatever the cache read gave, null included, as a hit
AlwaysTruthy(r) == TRUE

\* if (cachedPrices): an array, even an empty one, is truthy
Truthy(r) == ~r.isNull

NoDay == <<"null", 0, "">>

ResponseCandles(candles) ==
  [i \in 1..Len(candles) |-> [candles[i] EXCEPT !.time = toISOString(candles[i].time)]]

InvalidArgument(fn) ==
  [fn |-> fn, status |-> "invalid-argument", symbol |-> "", interval |-> "",
   tradingDay |-> NoDay, candles |-> <<>>]

\* a handler that answers an upstream failure with an empty success
Shrugged(fn, symbol, interval) ==
  [fn |-> fn, status |-> "ok", symbol |-> symbol, interval |-> interval,
   tradingDay |-> NoDay, candles |-> <<>>]

Failed(fn, symbol, interval) ==
  [fn |-> fn, status |-> "error", symbol |-> symbol, interval |-> interval,
   tradingDay |-> NoDay, candles |-> <<>>]

\* a handler whose answer is the error of its last awaited call
Surfaced(fn, symbol, interval, tradingDay, candles) == Failed(fn, symbol, interval)

Ok(fn, symbol, interval, tradingDay, candles) ==
  [fn |-> fn, status |-> "ok", symbol |-> symbol, interval |-> interval,
   tradingDay |-> tradingDay, candles |-> ResponseCandles(candles)]

FetchOp(date, interval, f) ==
  [op |-> "fetch", date |-> date, interval |-> interval,
   out |-> IF f.threw THEN "throw" ELSE IF Len(f.val) = 0 THEN "empty" ELSE "series",
   candles |-> IF f.threw THEN <<>> ELSE f.val]

WriteOp(date, interval, throws) ==
  [op |-> "write", date |-> date, interval |-> interval,
   out |-> IF throws THEN "error" ELSE "ok"]

UpsertOp(date, throws) ==
  [op |-> "upsert", date |-> date, interval |-> "",
   out |-> IF throws THEN "error" ELSE "ok"]

\* a handler whose cache hit moves the lastUpdated of what it read forward
Touching(i, a, r, o) ==
  [intraday |-> IF o # <<>> /\ o[Len(o)].out = "Intraday cache hit"
                THEN [k \in DOMAIN i |->
                        [i[k] EXCEPT !.lastUpdated.seconds = @ + 60]]
                ELSE i,
   aggregate |-> a, resp |-> r, ops |-> o]

Outcome(i, a, r, o) == [intraday |-> i, aggregate |-> a, resp |-> r, ops |-> o]

\* a daily upsert that does not look at the month
UpsertsForAnyMonth(month, prices) == Len(prices) > 0

\* getIntradayPrices, lines 108-117: cache the fetched prices, then the daily upsert
\* if (!month && prices.length > 0)
UpsertsDaily(month, prices) == month = NoMonth /\ Len(prices) > 0

GetIntradayPricesStore(i, a, symbol, targetDate, today, interval, month, prices, t, wf, uf) ==
  LET i1 == cacheIntradayPrices(i, symbol, targetDate, interval, prices, t, wf)
      w == <<WriteOp(targetDate, interval, wf)>>
      dailyCandle == aggregateToDaily(prices)
  IN IF UpsertsDaily(month, prices) /\ ~dailyCandle.isNull
     THEN [intraday |-> i1,
           aggregate |-> updateDailyPrice(a, symbol, today, dailyCandle.val, t, uf),
           ops |-> w \o <<UpsertOp(today, uf)>>]
     ELSE [intraday |-> i1, aggregate |-> a, ops |-> w]

\* getIntradayPrices(request); response: the provider's answer, should it be
\* asked; rf, wf, uf: the store read, the intraday write, the daily upsert throw
GetIntradayPricesRun(i, a, t, symbol, requested, month, response, rf, wf, uf) ==
  IF SymbolMissing(symbol) THEN Outcome(i, a, InvalidArgument("getIntradayPrices"), <<>>)
  ELSE
  LET requestedInterval == OrDefault(requested, "15min")
      interval == EffectiveInterval(requestedInterval)
      normalizedSymbol == ToUpperCase(symbol)
      today == getTodayString(t)
      targetDate == IF month # NoMonth THEN MonthKey(month) ELSE today
      cachedPrices == getCachedIntradayPrices(i, normalizedSymbol, targetDate,
                                              interval, t, rf)
      rd == <<ReadOp(targetDate, interval, cachedPrices)>>
  IN IF Truthy(cachedPrices)
     THEN Outcome(i, a, Ok("getIntradayPrices", normalizedSymbol, interval, NoDay,
                           cachedPrices.val), rd)
     ELSE
     LET prices == fetchIntradayPrices(response)
         ft == rd \o <<FetchOp(targetDate, interval, prices)>>
     IN IF prices.threw
        THEN Outcome(i, a, Failed("getIntradayPrices", normalizedSymbol, interval), ft)
        ELSE
        LET st == GetIntradayPricesStore(i, a, normalizedSymbol, targetDate, today,
                                         interval, month, prices.val, t, wf, uf)
        IN Outcome(st.intraday, st.aggregate,
                   Ok("getIntradayPrices", normalizedSymbol, interval, NoDay,
                      prices.val),
                   ft \o st.ops)

\* a handler that never caches what it fetched
NeverCaches(candles) == FALSE

\* getRecentOpenDay, lines 215-230: only cache if we got valid data
\* if (candles.length > 0)
CachesRecent(candles) == Len(candles) > 0

GetRecentOpenDayStore(i, a, symbol, today, interval, candles, t, wf, uf) ==
  IF CachesRecent(candles)
  THEN LET i1 == cacheIntradayPrices(i, symbol, today, interval, candles, t, wf)
           w == <<WriteOp(today, interval, wf)>>
           dailyCandle == aggregateToDaily(candles)
       IN IF ~dailyCandle.isNull
          THEN [intraday |-> i1,
                aggregate |-> updateDailyPrice(a, symbol, today, dailyCandle.val, t, uf),
                ops |-> w \o <<UpsertOp(today, uf)>>]
          ELSE [intraday |-> i1, aggregate |-> a, ops |-> w]
  ELSE [intraday |-> i, aggregate |-> a, ops |-> <<>>]

\* a response that echoes the interval asked for
EchoedInterval(cachedData, interval) == interval

\* interval: cachedData.actualInterval, // Return the actual interval we found
ReportedInterval(cachedData, interval) == cachedData.actualInterval

\* getRecentOpenDay(request); failing: the cache probes whose store read throws
GetRecentOpenDayRun(i, a, t, symbol, requested, response, failing, wf, uf) ==
  IF SymbolMissing(symbol) THEN Outcome(i, a, InvalidArgument("getRecentOpenDay"), <<>>)
  ELSE
  LET requestedInterval == OrDefault(requested, "60min")
      interval == EffectiveInterval(requestedInterval)
      normalizedSymbol == ToUpperCase(symbol)
      today == getTodayString(t)
      cachedData == findRecentCachedData(i, normalizedSymbol, interval, t, failing)
  IN IF ~cachedData.isNull /\ Len(cachedData.candles) > 0
     THEN Outcome(i, a,
                  Ok("getRecentOpenDay", normalizedSymbol,
                     ReportedInterval(cachedData, interval),
                     DatePart(toISOString(cachedData.candles[1].time)),
                     cachedData.candles),
                  cachedData.trace)
     ELSE
     LET candles == getRecentOpenDayCandles(response)
         ft == cachedData.trace \o <<FetchOp(today, interval, candles)>>
     IN IF candles.threw
        THEN Outcome(i, a, Failed("getRecentOpenDay", normalizedSymbol, interval), ft)
        ELSE
        LET tradingDay == IF Len(candles.val) > 0
                          THEN DatePart(toISOString(candles.val[1].time))
                          ELSE NoDay
            st == GetRecentOpenDayStore(i, a, normalizedSymbol, today, interval,
                                        candles.val, t, wf, uf)
        IN Outcome(st.intraday, st.aggregate,
                   Ok("getRecentOpenDay", normalizedSymbol, interval, tradingDay,
                      candles.val),
                   ft \o st.ops)

---------------------------------------------------------------------------
(* The state machine: requests arrive one after another while time passes *)

NoRequest ==
  [fn |-> "none", symbol |-> "", requested |-> "", month |-> NoMonth, at |-> 0]

NoResponse ==
  [fn |-> "none", status |-> "none", symbol |-> "", interval |-> "",
   tradingDay |-> NoDay, candles |-> <<>>]

\* the probes of one findRecentCachedData whose store read throws
Failing(fault) == IF fault = "read" THEN {1} ELSE {}

MaxConcurrent == 2

Procs == 1..MaxConcurrent

Idle ==
  [pc |-> "idle", interval |-> "", date |-> NoDay, log |-> "", prices |-> <<>>,
   builtAt |-> 0, status |-> "none", candles |-> <<>>]

NoFlight == [procs |-> [p \in Procs |-> Idle], calls |-> <<>>, lastWrite |-> 0]

NoMarket == [calls |-> 0, at |-> 0, open |-> FALSE]

NoCall == [pc |-> "idle", date |-> NoDay, candle |-> <<>>, threw |-> FALSE]

NoUpserts == [p \in Procs |-> NoCall]

NoOpenDay ==
  [response |-> [kind |-> "note", series |-> <<>>], done |-> FALSE,
   fetched |-> Threw, result |-> Threw]

NoRead ==
  [date |-> NoDay, interval |-> "", at |-> 0, threw |-> FALSE, log |-> "",
   before |-> {}]

NoFresh == [calls |-> 0, read |-> NoRead, expired |-> {}]

NoRollup ==
  [dailyPrices |-> <<>>, calls |-> 0, weekly |-> Null, monthly |-> Null]

NoDaily == [candles |-> <<>>, done |-> FALSE, result |-> Null]

NoAggRead == [no |-> 0, granularity |-> "", threw |-> FALSE, result |-> NullPrices]

Init ==
  /\ now \in StartTimes
  /\ ticks = 0
  /\ reqNo = 0
  /\ intraday = EmptyMap
  /\ aggregate = EmptyMap
  /\ req = NoRequest
  /\ resp = NoResponse
  /\ ops = <<>>
  /\ aggRead = NoAggRead
  /\ daily = NoDaily
  /\ rollup = NoRollup
  /\ market = NoMarket
  /\ flight = NoFlight
  /\ upserts = NoUpserts
  /\ openDay = NoOpenDay
  /\ fresh = NoFresh

\* time passes between requests
Tick ==
  /\ ticks < MaxTicks
  /\ reqNo < MaxReq
  /\ \E d \in Deltas : now' = now + d
  /\ ticks' = ticks + 1
  /\ UNCHANGED <<reqNo, intraday, aggregate, req, resp, ops, aggRead, daily, rollup, market, flight, upserts, openDay, fresh>>

Handled(fn, symbol, requested, month, out) ==
  /\ reqNo' = reqNo + 1
  /\ req' = [fn |-> fn, symbol |-> symbol, requested |-> requested,
             month |-> month, at |-> now]
  /\ intraday' = out.intraday
  /\ aggregate' = out.aggregate
  /\ resp' = out.resp
  /\ ops' = out.ops
  /\ UNCHANGED <<now, ticks, aggRead, daily, rollup, market, flight, upserts, openDay, fresh>>

GetIntradayPrices ==
  /\ reqNo < MaxReq
  /\ \E symbol \in SymbolInputs, requested \in IntervalInputs, month \in MonthInputs,
        response \in Responses(now), fault \in Faults :
       Handled("getIntradayPrices", symbol, requested, month,
               GetIntradayPricesRun(intraday, aggregate, now, symbol, requested,
                                    month, response, fault = "read",
                                    fault = "write", fault = "upsert"))

GetRecentOpenDay ==
  /\ reqNo < MaxReq
  /\ \E symbol \in SymbolInputs, requested \in IntervalInputs,
        response \in Responses(now), fault \in Faults :
       Handled("getRecentOpenDay", symbol, requested, NoMonth,
               GetRecentOpenDayRun(intraday, aggregate, now, symbol, requested,
                                   response, Failing(fault),
                                   fault = "write", fault = "upsert"))

\* a request without a symbol is rejected before any I/O
RejectMissingSymbol ==
  /\ reqNo < MaxReq
  /\ \E symbol \in MissingSymbols, requested \in IntervalInputs :
       \/ Handled("getIntradayPrices", symbol, requested, NoMonth,
                  GetIntradayPricesRun(intraday, aggregate, now, symbol, requested,
                                       NoMonth, [kind |-> "note", series |-> <<>>],
                                       FALSE, FALSE, FALSE))
       \/ Handled("getRecentOpenDay", symbol, requested, NoMonth,
                  GetRecentOpenDayRun(intraday, aggregate, now, symbol, requested,
                                      [kind |-> "note", series |-> <<>>], {},
                                      FALSE, FALSE))

Next == Tick \/ GetIntradayPrices \/ GetRecentOpenDay \/ RejectMissingSymbol

Spec == Init /\ [][Next]_vars

---------------------------------------------------------------------------
(* The aggregate cache on its own: its three operations called one after
   another while days and weeks pass *)

MaxAggCalls == 3
MaxAggTicks == 2

AggDeltas ==
  { 1, 23 * 60, 24 * 60, 25 * 60, 7 * MinPerDay, 30 * MinPerDay }

DayCandle(t, c) ==
  [time |-> (t \div MinPerDay) * MinPerDay, open |-> 10, high |-> 13, low |-> 9,
   close |-> c, volume |-> 300]

\* the maps a caller may hand to cacheAggregatePrices at instant t
PriceMaps(t) ==
  { EmptyMap,
    [k \in {getTodayString(t)} |-> DayCandle(t, 12)],
    [k \in {getTodayString(t), getDaysAgoString(t, 1)} |->
       IF k = getTodayString(t) THEN DayCandle(t, 12)
       ELSE DayCandle(t - MinPerDay, 11)] }

AggTick ==
  /\ ticks < MaxAggTicks
  /\ reqNo < MaxAggCalls
  /\ \E d \in AggDeltas : now' = now + d
  /\ ticks' = ticks + 1
  /\ UNCHANGED <<reqNo, intraday, aggregate, req, resp, ops, aggRead, daily, rollup, market, flight, upserts, openDay, fresh>>

CacheAggregatePrices ==
  /\ reqNo < MaxAggCalls
  /\ \E symbol \in SymbolInputs, granularity \in Granularities,
        prices \in PriceMaps(now), throws \in BOOLEAN :
       aggregate' = cacheAggregatePrices(aggregate, symbol, granularity, prices,
                                         now, throws)
  /\ reqNo' = reqNo + 1
  /\ UNCHANGED <<now, ticks, intraday, req, resp, ops, aggRead, daily, rollup, market, flight, upserts, openDay, fresh>>

UpdateDailyPrice ==
  /\ reqNo < MaxAggCalls
  /\ \E symbol \in SymbolInputs, c \in {12, 13}, throws \in BOOLEAN :
       aggregate' = updateDailyPrice(aggregate, symbol, getTodayString(now),
                                     DayCandle(now, c), now, throws)
  /\ reqNo' = reqNo + 1
  /\ UNCHANGED <<now, ticks, intraday, req, resp, ops, aggRead, daily, rollup, market, flight, upserts, openDay, fresh>>

\* aggRead: the latest call of getCachedAggregatePrices and what it returned
GetCachedAggregatePrices ==
  /\ reqNo < MaxAggCalls
  /\ \E symbol \in SymbolInputs, granularity \in Granularities, throws \in BOOLEAN :
       aggRead' = [no |-> reqNo + 1, granularity |-> granularity, threw |-> throws,
                   result |-> getCachedAggregatePrices(aggregate, symbol,
                                                       granularity, now, throws)]
  /\ reqNo' = reqNo + 1
  /\ UNCHANGED <<now, ticks, intraday, aggregate, req, resp, ops, daily, rollup, market, flight, upserts, openDay, fresh>>

NextAgg ==
  AggTick \/ CacheAggregatePrices \/ UpdateDailyPrice \/ GetCachedAggregatePrices

SpecAgg == Init /\ [][NextAgg]_vars

---------------------------------------------------------------------------
(* Requests with any interval: none, one of the five, one the handlers do not
   know *)

AnyIntervals == { "", "15min", "bogus" }

GetIntradayPricesAnyInterval ==
  /\ reqNo < MaxReq
  /\ \E symbol \in SymbolInputs, requested \in AnyIntervals,
        response \in Responses(now), fault \in Faults :
       Handled("getIntradayPrices", symbol, requested, NoMonth,
               GetIntradayPricesRun(intraday, aggregate, now, symbol, requested,
                                    NoMonth, response, fault = "read",
                                    fault = "write", fault = "upsert"))

GetRecentOpenDayAnyInterval ==
  /\ reqNo < MaxReq
  /\ \E symbol \in SymbolInputs, requested \in AnyIntervals,
        response \in Responses(now), fault \in Faults :
       Handled("getRecentOpenDay", symbol, requested, NoMonth,
               GetRecentOpenDayRun(intraday, aggregate, now, symbol, requested,
                                   response, Failing(fault),
                                   fault = "write", fault = "upsert"))

NextInterval == Tick \/ GetIntradayPricesAnyInterval \/ GetRecentOpenDayAnyInterval

SpecInterval == Init /\ [][NextInterval]_vars

---------------------------------------------------------------------------
(* aggregateToDaily on its own: applied once to a sequence of candles *)

MaxCandles == 3

\* candles of two quarter hours, prices in whole units; a candle of a third
\* quarter hour that trades above the others, and one whose high lies below
\* its open (the engine passes such a candle through)
CandleInputs ==
  { [time |-> s.time, open |-> s.open, high |-> h, low |-> l, close |-> s.close,
     volume |-> v] :
      s \in { [time |-> 14 * 60 + 30, open |-> 10, close |-> 11],
              [time |-> 14 * 60 + 45, open |-> 11, close |-> 12] },
      h \in {12, 13}, l \in {9, 10}, v \in {100, 200} }
    \cup { [time |-> 15 * 60, open |-> 14, high |-> 15, low |-> 13, close |-> 14,
            volume |-> 100],
           [time |-> 15 * 60 + 15, open |-> 12, high |-> 11, low |-> 10,
            close |-> 11, volume |-> 100] }

CandleSequences == UNION { [1..n -> CandleInputs] : n \in 0..MaxCandles }

InitDaily ==
  /\ now \in StartTimes
  /\ ticks = 0
  /\ reqNo = 0
  /\ intraday = EmptyMap
  /\ aggregate = EmptyMap
  /\ req = NoRequest
  /\ resp = NoResponse
  /\ ops = <<>>
  /\ aggRead = NoAggRead
  /\ \E candles \in CandleSequences :
       daily = [candles |-> candles, done |-> FALSE, result |-> Null]
  /\ rollup = NoRollup
  /\ market = NoMarket
  /\ flight = NoFlight
  /\ upserts = NoUpserts
  /\ openDay = NoOpenDay
  /\ fresh = NoFresh

AggregateToDaily ==
  /\ ~daily.done
  /\ daily' = [daily EXCEPT !.done = TRUE,
                            !.result = aggregateToDaily(daily.candles)]
  /\ UNCHANGED <<now, ticks, reqNo, intraday, aggregate, req, resp, ops, aggRead, rollup, market, flight, upserts, openDay, fresh>>

NextDaily == AggregateToDaily

SpecDaily == InitDaily /\ [][NextDaily]_vars

---------------------------------------------------------------------------
(* aggregateToWeekly and aggregateToMonthly on their own: called, in any
   order and more than once, on one daily map *)

MaxDays == 3
MaxRollupCalls == 3

\* days around two turns of the year, of three months
DayKeys ==
  { Ymd(2020, 12, 31), Ymd(2021, 1, 1), Ymd(2024, 1, 2), Ymd(2024, 12, 27),
    Ymd(2024, 12, 30), Ymd(2025, 1, 2), Ymd(2025, 1, 6) }

DayCandles(dateStr) ==
  { [time |-> NewDate(dateStr), open |-> 10, high |-> 12, low |-> 9, close |-> 11,
     volume |-> 100],
    [time |-> NewDate(dateStr), open |-> 11, high |-> 13, low |-> 10, close |-> 12,
     volume |-> 200] }

\* the daily maps of up to MaxDays days, in every order of insertion
DayEntries ==
  UNION { { [key |-> k, val |-> c] : c \in DayCandles(k) } : k \in DayKeys }

DailyMaps ==
  UNION { { m \in [1..n -> DayEntries] :
              \A i, j \in 1..n : m[i].key = m[j].key => i = j } : n \in 0..MaxDays }

InitRollup ==
  /\ now \in StartTimes
  /\ ticks = 0
  /\ reqNo = 0
  /\ intraday = EmptyMap
  /\ aggregate = EmptyMap
  /\ req = NoRequest
  /\ resp = NoResponse
  /\ ops = <<>>
  /\ aggRead = NoAggRead
  /\ daily = NoDaily
  /\ \E dailyPrices \in DailyMaps :
       rollup = [dailyPrices |-> dailyPrices, calls |-> 0, weekly |-> Null,
                 monthly |-> Null]
  /\ market = NoMarket
  /\ flight = NoFlight
  /\ upserts = NoUpserts
  /\ openDay = NoOpenDay
  /\ fresh = NoFresh

AggregateToWeekly ==
  /\ rollup.calls < MaxRollupCalls
  /\ rollup' = [rollup EXCEPT !.calls = @ + 1,
                              !.weekly = Some(aggregateToWeekly(rollup.dailyPrices))]
  /\ UNCHANGED <<now, ticks, reqNo, intraday, aggregate, req, resp, ops, aggRead, daily, market, flight, upserts, openDay, fresh>>

AggregateToMonthly ==
  /\ rollup.calls < MaxRollupCalls
  /\ rollup' = [rollup EXCEPT !.calls = @ + 1,
                              !.monthly = Some(aggregateToMonthly(rollup.dailyPrices))]
  /\ UNCHANGED <<now, ticks, reqNo, intraday, aggregate, req, resp, ops, aggRead, daily, market, flight, upserts, openDay, fresh>>

NextRollup == AggregateToWeekly \/ AggregateToMonthly

SpecRollup == InitRollup /\ [][NextRollup]_vars

---------------------------------------------------------------------------
(* isMarketOpen on its own: asked while the clock runs through the open and
   the close of each day of a week *)

MaxClockTicks == 2
MaxMarketCalls == 2

\* one minute before the open and before the close in New York, each day of week 0
ClockStarts ==
  { d * MinPerDay + NewYorkOffset + m : d \in 0..6, m \in {9 * 60 + 29, 15 * 60 + 59} }

InitClock ==
  /\ now \in ClockStarts
  /\ ticks = 0
  /\ reqNo = 0
  /\ intraday = EmptyMap
  /\ aggregate = EmptyMap
  /\ req = NoRequest
  /\ resp = NoResponse
  /\ ops = <<>>
  /\ aggRead = NoAggRead
  /\ daily = NoDaily
  /\ rollup = NoRollup
  /\ market = NoMarket
  /\ flight = NoFlight
  /\ upserts = NoUpserts
  /\ openDay = NoOpenDay
  /\ fresh = NoFresh

\* a minute passes
ClockTick ==
  /\ ticks < MaxClockTicks
  /\ now' = now + 1
  /\ ticks' = ticks + 1
  /\ UNCHANGED <<reqNo, intraday, aggregate, req, resp, ops, aggRead, daily, rollup, market, flight, upserts, openDay, fresh>>

IsMarketOpen ==
  /\ market.calls < MaxMarketCalls
  /\ market' = [calls |-> market.calls + 1, at |-> now, open |-> isMarketOpen(now)]
  /\ UNCHANGED <<now, ticks, reqNo, intraday, aggregate, req, resp, ops, aggRead, daily, rollup, flight, upserts, openDay, fresh>>

NextClock == ClockTick \/ IsMarketOpen

SpecClock == InitClock /\ [][NextClock]_vars

---------------------------------------------------------------------------
(* getIntradayPrices requests running concurrently: each request is at one of
   its awaits, and the steps of different requests interleave *)

MaxFlightTicks == 2

\* a request waits for the fetch another request for the same key has under
\* way, and takes its candles
SingleFlight(procs, p) ==
  \E q \in Procs \ {p} : /\ procs[q].pc \in {"caching", "writing"}
                          /\ procs[q].date = procs[p].date
                          /\ procs[q].interval = procs[p].interval

\* lines 92-106: every request that missed calls fetchPricesService itself
SharesFetch(procs, p) == FALSE

InitFlight ==
  /\ now \in StartTimes
  /\ ticks = 0
  /\ reqNo = 0
  /\ intraday = EmptyMap
  /\ aggregate = EmptyMap
  /\ req = NoRequest
  /\ resp = NoResponse
  /\ ops = <<>>
  /\ aggRead = NoAggRead
  /\ daily = NoDaily
  /\ rollup = NoRollup
  /\ market = NoMarket
  /\ flight = NoFlight
  /\ upserts = NoUpserts
  /\ openDay = NoOpenDay
  /\ fresh = NoFresh

FlightFrame ==
  UNCHANGED <<ticks, reqNo, req, resp, ops, aggRead, daily, rollup, market, upserts, openDay, fresh>>

\* a minute passes
FlightTick ==
  /\ ticks < MaxFlightTicks
  /\ now' = now + 1
  /\ ticks' = ticks + 1
  /\ UNCHANGED <<reqNo, intraday, aggregate, req, resp, ops, aggRead, daily, rollup, market, flight, upserts, openDay, fresh>>

\* lines 36-57: the request arrives; interval and targetDate are fixed
Arrive ==
  \E p \in Procs, requested \in IntervalInputs :
    /\ flight.procs[p].pc = "idle"
    /\ flight' = [flight EXCEPT !.procs[p] =
                     [@ EXCEPT !.pc = "checking",
                               !.interval = EffectiveInterval(OrDefault(requested, "15min")),
                               !.date = getTodayString(now)]]
    /\ UNCHANGED <<now, intraday, aggregate>>
    /\ FlightFrame

\* lines 66-89: await getCachedIntradayPrices; a hit is returned
CacheCheck ==
  \E p \in Procs, rf \in BOOLEAN :
    LET me == flight.procs[p]
        cachedPrices == getCachedIntradayPrices(intraday, "AAPL", me.date,
                                                me.interval, now, rf)
    IN /\ me.pc = "checking"
       /\ flight' = [flight EXCEPT !.procs[p] =
                        IF Truthy(cachedPrices)
                        THEN [me EXCEPT !.pc = "done", !.log = cachedPrices.log,
                                        !.status = "ok",
                                        !.candles = ResponseCandles(cachedPrices.val)]
                        ELSE [me EXCEPT !.pc = "fetching", !.log = cachedPrices.log]]
       /\ UNCHANGED <<now, intraday, aggregate>>
       /\ FlightFrame

\* lines 98-106: await fetchPricesService; its error ends the request
UpstreamFetch ==
  \E p \in Procs, response \in Responses(now) :
    LET me == flight.procs[p]
        prices == fetchIntradayPrices(response)
    IN /\ me.pc = "fetching"
       /\ IF SharesFetch(flight.procs, p)
          THEN \E q \in Procs \ {p} :
                 /\ flight.procs[q].pc \in {"caching", "writing"}
                 /\ flight' = [flight EXCEPT !.procs[p] =
                                  [me EXCEPT !.pc = "caching",
                                             !.prices = flight.procs[q].prices]]
          ELSE flight' =
                 [flight EXCEPT
                    !.calls = Append(@, [proc |-> p, date |-> me.date,
                                         interval |-> me.interval]),
                    !.procs[p] = IF prices.threw
                                 THEN [me EXCEPT !.pc = "done", !.status = "error"]
                                 ELSE [me EXCEPT !.pc = "caching",
                                                 !.prices = prices.val]]
       /\ UNCHANGED <<now, intraday, aggregate>>
       /\ FlightFrame

\* cacheIntradayPrices, lines 134-140: the document is built, lastUpdated: new Date()
BuildEntry ==
  \E p \in Procs :
    /\ flight.procs[p].pc = "caching"
    /\ flight' = [flight EXCEPT !.procs[p] = [@ EXCEPT !.pc = "writing", !.builtAt = now]]
    /\ UNCHANGED <<now, intraday, aggregate>>
    /\ FlightFrame

\* cacheIntradayPrices, line 142: await docRef.set(data); then lines 112-130
ApplyWrite ==
  \E p \in Procs, wf \in BOOLEAN :
    LET me == flight.procs[p]
        dailyCandle == aggregateToDaily(me.prices)
    IN /\ me.pc = "writing"
       /\ intraday' = cacheIntradayPrices(intraday, "AAPL", me.date, me.interval,
                                          me.prices, me.builtAt, wf)
       /\ flight' = [flight EXCEPT
                        !.lastWrite = IF wf THEN @ ELSE p,
                        !.procs[p] =
                          IF UpsertsDaily(NoMonth, me.prices) /\ ~dailyCandle.isNull
                          THEN [me EXCEPT !.pc = "upserting"]
                          ELSE [me EXCEPT !.pc = "done", !.status = "ok",
                                          !.candles = ResponseCandles(me.prices)]]
       /\ UNCHANGED <<now, aggregate>>
       /\ FlightFrame

\* lines 113-116: await updateDailyPrice; then the response, lines 119-130
DailyUpsert ==
  \E p \in Procs, uf \in BOOLEAN :
    LET me == flight.procs[p]
    IN /\ me.pc = "upserting"
       /\ aggregate' = updateDailyPrice(aggregate, "AAPL", me.date,
                                        aggregateToDaily(me.prices).val, now, uf)
       /\ flight' = [flight EXCEPT !.procs[p] =
                        [me EXCEPT !.pc = "done", !.status = "ok",
                                   !.candles = ResponseCandles(me.prices)]]
       /\ UNCHANGED <<now, intraday>>
       /\ FlightFrame

NextFlight ==
  FlightTick \/ Arrive \/ CacheCheck \/ UpstreamFetch \/ BuildEntry \/ ApplyWrite
    \/ DailyUpsert

SpecFlight == InitFlight /\ [][NextFlight]_vars

---------------------------------------------------------------------------
(* updateDailyPrice called concurrently: each call builds its data, then awaits
   docRef.set(data, {merge: true}), which the store applies atomically; the
   set() calls of different callers are applied in any order *)

MaxUpsertTicks == 2

UpsertDeltas == { 1, MinPerDay }

\* the dates a caller may name at instant t: today, yesterday
UpsertDates(t) == { getTodayString(t), getDaysAgoString(t, 1) }

InitUpsert ==
  /\ now \in StartTimes
  /\ ticks = 0
  /\ reqNo = 0
  /\ intraday = EmptyMap
  /\ aggregate = EmptyMap
  /\ req = NoRequest
  /\ resp = NoResponse
  /\ ops = <<>>
  /\ aggRead = NoAggRead
  /\ daily = NoDaily
  /\ rollup = NoRollup
  /\ market = NoMarket
  /\ flight = NoFlight
  /\ upserts = NoUpserts
  /\ openDay = NoOpenDay
  /\ fresh = NoFresh

UpsertFrame ==
  UNCHANGED <<ticks, reqNo, intraday, req, resp, ops, aggRead, daily, rollup, market, flight, openDay, fresh>>

UpsertTick ==
  /\ ticks < MaxUpsertTicks
  /\ \E d \in UpsertDeltas : now' = now + d
  /\ ticks' = ticks + 1
  /\ UNCHANGED <<reqNo, intraday, aggregate, req, resp, ops, aggRead, daily, rollup, market, flight, upserts, openDay, fresh>>

\* lines 243-255: updateDailyPrice(symbol, date, candle) is called
CallUpdateDailyPrice ==
  \E p \in Procs, date \in UpsertDates(now), c \in {12, 13} :
    /\ upserts[p].pc = "idle"
    /\ upserts' = [upserts EXCEPT ![p] =
                      [pc |-> "setting", date |-> date,
                       candle |-> DayCandle(date[2] * MinPerDay, c), threw |-> FALSE]]
    /\ UNCHANGED <<now, aggregate>>
    /\ UpsertFrame

\* lines 256-268: await docRef.set(..., {merge: true}); an error is logged
ApplySet ==
  \E p \in Procs, throws \in BOOLEAN :
    /\ upserts[p].pc = "setting"
    /\ aggregate' = updateDailyPrice(aggregate, "aapl", upserts[p].date,
                                     upserts[p].candle, now, throws)
    /\ upserts' = [upserts EXCEPT ![p] = [@ EXCEPT !.pc = "done", !.threw = throws]]
    /\ UNCHANGED now
    /\ UpsertFrame

NextUpsert == UpsertTick \/ CallUpdateDailyPrice \/ ApplySet

SpecUpsert == InitUpsert /\ [][NextUpsert]_vars

---------------------------------------------------------------------------
(* getRecentOpenDayCandles on its own: applied once to a provider response *)

MaxPoints == 3

\* bars of Thursday, Friday and Monday of week 0, in New York time; the bar of
\* 19:30 is one of the extended hours
SeriesPoints ==
  { DataPoint(3, 15 * 60 + 45, 9, 10, 8, 9, 70),
    DataPoint(4, 9 * 60 + 30, 10, 12, 9, 11, 100),
    DataPoint(4, 9 * 60 + 45, 11, 13, 10, 12, 200),
    DataPoint(4, 19 * 60 + 30, 12, 12, 11, 11, 30),
    DataPoint(7, 9 * 60 + 30, 12, 14, 11, 13, 50) }

\* "Time Series (...)": up to MaxPoints bars, in any order of listing
SeriesInputs ==
  UNION { { q \in [1..n -> SeriesPoints] :
              \A i, j \in 1..n : q[i] = q[j] => i = j } : n \in 0..MaxPoints }

ResponseInputs ==
  { [kind |-> k, series |-> <<>>] :
      k \in {"http-error", "error-message", "note", "no-series"} }
    \cup { [kind |-> "series", series |-> q] : q \in SeriesInputs }

InitOpenDay ==
  /\ now \in StartTimes
  /\ ticks = 0
  /\ reqNo = 0
  /\ intraday = EmptyMap
  /\ aggregate = EmptyMap
  /\ req = NoRequest
  /\ resp = NoResponse
  /\ ops = <<>>
  /\ aggRead = NoAggRead
  /\ daily = NoDaily
  /\ rollup = NoRollup
  /\ market = NoMarket
  /\ flight = NoFlight
  /\ upserts = NoUpserts
  /\ \E response \in ResponseInputs :
       openDay = [response |-> response, done |-> FALSE, fetched |-> Threw,
                  result |-> Threw]
  /\ fresh = NoFresh

\* fetched: what fetchIntradayPrices returned to it, line 451
GetRecentOpenDayCandles ==
  /\ ~openDay.done
  /\ openDay' = [openDay EXCEPT !.done = TRUE,
                                !.fetched = fetchIntradayPrices(openDay.response),
                                !.result = getRecentOpenDayCandles(openDay.response)]
  /\ UNCHANGED <<now, ticks, reqNo, intraday, aggregate, req, resp, ops, aggRead, daily, rollup, market, flight, upserts, fresh>>

NextOpenDay == GetRecentOpenDayCandles

SpecOpenDay == InitOpenDay /\ [][NextOpenDay]_vars

---------------------------------------------------------------------------
(* The intraday cache on its own: cacheIntradayPrices and
   getCachedIntradayPrices called one after another while time passes *)

MaxFreshTicks == 3
MaxFreshCalls == 4

\* Friday of week 0 in New York: half an hour before the open, forty minutes
\* before the close
FreshStarts == { 4 * MinPerDay + NewYorkOffset + m : m \in {9 * 60, 15 * 60 + 20} }

FreshDeltas == { 16, MinPerDay }

FreshCandles(t) ==
  << [time |-> t - 15, open |-> 10, high |-> 12, low |-> 9, close |-> 11,
      volume |-> 100] >>

InitFresh ==
  /\ now \in FreshStarts
  /\ ticks = 0
  /\ reqNo = 0
  /\ intraday = EmptyMap
  /\ aggregate = EmptyMap
  /\ req = NoRequest
  /\ resp = NoResponse
  /\ ops = <<>>
  /\ aggRead = NoAggRead
  /\ daily = NoDaily
  /\ rollup = NoRollup
  /\ market = NoMarket
  /\ flight = NoFlight
  /\ upserts = NoUpserts
  /\ openDay = NoOpenDay
  /\ fresh = NoFresh

FreshFrame ==
  UNCHANGED <<reqNo, aggregate, req, resp, ops, aggRead, daily, rollup, market, flight, upserts, openDay>>

FreshTick ==
  /\ ticks < MaxFreshTicks
  /\ \E d \in FreshDeltas : now' = now + d
  /\ ticks' = ticks + 1
  /\ UNCHANGED <<intraday, fresh>>
  /\ FreshFrame

\* cacheIntradayPrices(symbol, date, interval, candles); the reports of an
\* expired entry end with the entry they were about
CacheIntradayPrices ==
  /\ fresh.calls < MaxFreshCalls
  /\ \E symbol \in SymbolInputs, interval \in IntervalInputs, throws \in BOOLEAN :
       LET date == getTodayString(now)
       IN /\ intraday' = cacheIntradayPrices(intraday, symbol, date, interval,
                                             FreshCandles(now), now, throws)
          /\ fresh' = [fresh EXCEPT
                         !.calls = @ + 1,
                         !.expired = IF throws THEN @
                                     ELSE { e \in @ : e.date # date }]
  /\ UNCHANGED <<now, ticks>>
  /\ FreshFrame

\* getCachedIntradayPrices(symbol, date, interval); before: the earlier reads
\* of this key that found the entry, as it still is, expired
GetCachedIntradayPrices ==
  /\ fresh.calls < MaxFreshCalls
  /\ \E symbol \in SymbolInputs, daysAgo \in {0, 1}, interval \in IntervalInputs,
        throws \in BOOLEAN :
       LET date == getDaysAgoString(now, daysAgo)
           r == getCachedIntradayPrices(intraday, symbol, date, interval, now, throws)
           key == [date |-> date, interval |-> interval]
           before == { e \in fresh.expired : e.date = date /\ e.interval = interval }
       IN fresh' = [calls |-> fresh.calls + 1,
                    read |-> [date |-> date, interval |-> interval, at |-> now,
                              threw |-> throws, log |-> r.log, before |-> before],
                    expired |-> IF r.log = "Intraday cache expired"
                                THEN fresh.expired \cup
                                       {[date |-> date, interval |-> interval, at |-> now]}
                                ELSE fresh.expired]
  /\ UNCHANGED <<now, ticks, intraday>>
  /\ FreshFrame

NextFresh == FreshTick \/ CacheIntradayPrices \/ GetCachedIntradayPrices

SpecFresh == InitFresh /\ [][NextFresh]_vars

---------------------------------------------------------------------------
(* Vocabulary of the properties *)

\* this step handles a request
RequestStep == reqNo' = reqNo + 1

Fetches(o) == { k \in 1..Len(o) : o[k].op = "fetch" }
Writes(o) == { k \in 1..Len(o) : o[k].op = "write" }
Upserts(o) == { k \in 1..Len(o) : o[k].op = "upsert" }
Reads(o) == { k \in 1..Len(o) : o[k].op = "read" }

FetchedEmpty(o) == \E k \in Fetches(o) : o[k].out = "empty"
FetchedSeries(o) == \E k \in Fetches(o) : o[k].out = "series"
StoreError(o) ==
  \E k \in 1..Len(o) : o[k].out = "error" \/ o[k].out = "Error reading intraday cache"

\* the same entry, or the same absence of one, under id in both stores
SameEntry(before, after, id) ==
  /\ id \in DOMAIN before <=> id \in DOMAIN after
  /\ id \in DOMAIN before => before[id] = after[id]

\* C1: a getIntradayPrices or getRecentOpenDay request whose upstream fetch
\* returns zero candles leaves the intraday entry of the requested symbol and
\* date as it was: none is created, an existing one is not overwritten.
C1_EmptyFetchLeavesEntry ==
  [][ (RequestStep /\ FetchedEmpty(ops'))
        => \A k \in Fetches(ops') :
             SameEntry(intraday, intraday', DocId(resp'.symbol, ops'[k].date)) ]_vars

\* C2: after a getIntradayPrices request whose upstream fetch returned zero
\* candles, the next getIntradayPrices request for the same symbol, date and
\* interval within the TTL window calls the upstream provider again.
C2_EmptyResultIsRetried ==
  [][ ( /\ req.fn = "getIntradayPrices"
        /\ FetchedEmpty(ops)
        /\ RequestStep
        /\ req'.fn = "getIntradayPrices"
        /\ resp'.status # "invalid-argument"
        /\ resp'.symbol = resp.symbol
        /\ ops'[1].date = ops[1].date
        /\ ops'[1].interval = ops[1].interval
        /\ now - req.at <= IntradayTTL(now) )
        => Fetches(ops') # {} ]_vars

---------------------------------------------------------------------------
(* What the contract says of an intraday entry, restated without the code *)

\* the New York market is open at instant t: a weekday, 9:30 to 16:00 local
MarketOpenAt(t) ==
  LET local == t - 5 * 60
  IN /\ (local \div (24 * 60)) % 7 < 5
     /\ local % (24 * 60) >= 9 * 60 + 30
     /\ local % (24 * 60) < 16 * 60

StoredAt(doc) == doc.lastUpdated.seconds \div 60
Age(doc, t) == t - StoredAt(doc)
FreshAt(doc, t) == Age(doc, t) <= (IF MarketOpenAt(t) THEN 15 ELSE 24 * 60)

EntryId(symbol, rd) == <<symbol, rd.date>>

\* the entry a read looks up exists, has the interval asked for and is fresh
Servable(store, symbol, rd, t) ==
  /\ EntryId(symbol, rd) \in DOMAIN store
  /\ store[EntryId(symbol, rd)].interval = rd.interval
  /\ FreshAt(store[EntryId(symbol, rd)], t)

\* stored candles as a response carries them: same order, same values, the
\* stored instant spelled as an ISO string
Served(stored) ==
  [k \in 1..Len(stored) |->
     [stored[k] EXCEPT !.time =
        [date |-> <<"date", (@.seconds \div 60) \div (24 * 60), "">>,
         time |-> (@.seconds \div 60) % (24 * 60)]]]

IsHit(rd) == rd.out = "Intraday cache hit"
ReadThrew(rd) == rd.out = "Error reading intraday cache"
Stored(o) == \E k \in Writes(o) : o[k].out = "ok"

\* this step handles a getIntradayPrices request that passes validation
IntradayStep ==
  /\ RequestStep
  /\ req'.fn = "getIntradayPrices"
  /\ resp'.status # "invalid-argument"

\* C3: a getIntradayPrices request that finds an existing, fresh entry of the
\* requested interval returns exactly the stored candles and fetches nothing;
\* so does the repeat, within 15 minutes and with the market open, of a
\* request that fetched and stored its candles.
C3_FreshEntryServedWithoutFetch ==
  [][ IntradayStep =>
        /\ (Servable(intraday, resp'.symbol, ops'[1], now) /\ ~ReadThrew(ops'[1]))
             => /\ resp'.status = "ok"
                /\ resp'.candles =
                     Served(intraday[EntryId(resp'.symbol, ops'[1])].candles)
                /\ Fetches(ops') = {}
        /\ ( /\ req.fn = "getIntradayPrices"
             /\ Stored(ops)
             /\ resp'.symbol = resp.symbol
             /\ ops'[1].date = ops[1].date
             /\ ops'[1].interval = ops[1].interval
             /\ now - req.at <= 15
             /\ MarketOpenAt(now)
             /\ ~ReadThrew(ops'[1]) )
             => /\ Fetches(ops') = {}
                /\ resp'.candles = resp.candles ]_vars

\* a second request, 15 minutes after the first and with the market open, was
\* answered from the entry the first one stored
C3_Witness ==
  /\ reqNo = 2
  /\ req.fn = "getIntradayPrices"
  /\ Len(ops) = 1
  /\ IsHit(ops[1])
  /\ Len(resp.candles) = 2
  /\ MarketOpenAt(now)
  /\ Age(intraday[EntryId(resp.symbol, ops[1])], now) = 15

\* C4: a read of an entry whose stored interval differs from the requested
\* one is a miss, however fresh the entry; a getIntradayPrices request then
\* goes to the upstream provider.
C4_IntervalMismatchIsMiss ==
  [][ RequestStep =>
        \A k \in Reads(ops') :
          ( /\ EntryId(resp'.symbol, ops'[k]) \in DOMAIN intraday
            /\ intraday[EntryId(resp'.symbol, ops'[k])].interval # ops'[k].interval )
            => /\ ~IsHit(ops'[k])
               /\ req'.fn = "getIntradayPrices"
                    => \E f \in Fetches(ops') : f > k ]_vars

\* a fresh entry of another interval was looked up, missed, and the provider asked
C4_Witness ==
  /\ req.fn = "getIntradayPrices"
  /\ Len(ops) = 2
  /\ ops[1].out = "Interval mismatch in cache"
  /\ ops[2].op = "fetch"
  /\ EntryId(resp.symbol, ops[1]) \in DOMAIN intraday
  /\ intraday[EntryId(resp.symbol, ops[1])].interval # ops[1].interval
  /\ FreshAt(intraday[EntryId(resp.symbol, ops[1])], now)

\* C5 as stated: a read returns the entry's candles if and only if the entry
\* exists, has the requested interval and its age is at most the TTL of the
\* moment of the read (15 minutes with the market open, else 24 hours).
C5_HitIffServable ==
  [][ RequestStep =>
        \A k \in Reads(ops') :
          IsHit(ops'[k]) <=> Servable(intraday, resp'.symbol, ops'[k], now) ]_vars

\* C5, amended: provided the store read itself succeeds, a read returns the
\* entry's candles if and only if the entry exists, has the requested interval
\* and its age is at most the TTL of the moment of the read; a read the store
\* fails is a miss whatever the entry.
C5_HitIffServableAndRead ==
  [][ RequestStep =>
        \A k \in Reads(ops') :
          /\ IsHit(ops'[k]) <=> ( /\ Servable(intraday, resp'.symbol, ops'[k], now)
                                  /\ ~ReadThrew(ops'[k]) )
          /\ (IsHit(ops'[k]) /\ k = Len(ops'))
               => resp'.candles =
                    Served(intraday[EntryId(resp'.symbol, ops'[k])].candles) ]_vars

\* an entry written before the open and younger than 24 hours was refused
\* once the market had opened
C5_Witness ==
  /\ Len(ops) >= 1
  /\ ops[1].out = "Intraday cache expired"
  /\ MarketOpenAt(now)
  /\ EntryId(resp.symbol, ops[1]) \in DOMAIN intraday
  /\ ~MarketOpenAt(StoredAt(intraday[EntryId(resp.symbol, ops[1])]))
  /\ Age(intraday[EntryId(resp.symbol, ops[1])], now) > 15
  /\ Age(intraday[EntryId(resp.symbol, ops[1])], now) <= 24 * 60

---------------------------------------------------------------------------
(* What the contract says of an aggregate entry *)

AggregateLimit(g) ==
  IF g = "daily" THEN 24 * 60
  ELSE IF g = "weekly" THEN 7 * 24 * 60
  ELSE 30 * 24 * 60

AggregateId(g) == <<"AAPL", g>>

\* the entry of granularity g exists and is no older than its limit
AggregateServable(store, g, t) ==
  /\ AggregateId(g) \in DOMAIN store
  /\ Age(store[AggregateId(g)], t) <= AggregateLimit(g)

\* this step is a call of getCachedAggregatePrices
AggregateReadStep == aggRead'.no = reqNo + 1

\* C6, for the reads the store answers: getCachedAggregatePrices returns the
\* prices map of the entry if and only if the entry exists and its age is at
\* most 24 hours (daily), 7 days (weekly) or 30 days (monthly); otherwise it
\* reports absent.
C6_PricesMapIffFresh ==
  [][ (AggregateReadStep /\ ~aggRead'.threw) =>
        IF AggregateServable(aggregate, aggRead'.granularity, now)
        THEN aggRead'.result.kind = "map"
        ELSE aggRead'.result.kind = "null" ]_vars

\* C6, the part that holds: a read the store answers returns the `prices`
\* field of the entry, be it a map or missing, if and only if the entry exists
\* and its age is within the limit of its granularity.
C6_PricesFieldIffFresh ==
  [][ (AggregateReadStep /\ ~aggRead'.threw) =>
        aggRead'.result =
          IF AggregateServable(aggregate, aggRead'.granularity, now)
          THEN IF aggregate[AggregateId(aggRead'.granularity)].hasPrices
               THEN [kind |-> "map",
                     val |-> aggregate[AggregateId(aggRead'.granularity)].prices]
               ELSE [kind |-> "undefined", val |-> EmptyMap]
          ELSE [kind |-> "null", val |-> EmptyMap] ]_vars

---------------------------------------------------------------------------
(* The cold path of getIntradayPrices and the resolver of getRecentOpenDay *)

Today(t) == <<"date", t \div (24 * 60), "">>

\* ISO instant a is earlier than ISO instant b
IsoBefore(a, b) ==
  \/ a.date[2] < b.date[2]
  \/ a.date[2] = b.date[2] /\ a.time < b.time

Ascending(candles) ==
  \A k \in 1..(Len(candles) - 1) : IsoBefore(candles[k].time, candles[k + 1].time)

\* C7: on a cold cache a getIntradayPrices request without a month whose
\* fetch returns a non-empty series performs, in this order, one upstream
\* fetch, one intraday write for (symbol, today, interval) and one daily upsert
\* for today, and returns the fetched candles in ascending time order.
C7_ColdPathFetchWriteUpsert ==
  [][ ( /\ IntradayStep
        /\ req'.month = ""
        /\ <<resp'.symbol, Today(now)>> \notin DOMAIN intraday
        /\ FetchedSeries(ops') )
        => /\ Len(ops') = 4
           /\ ops'[1].op = "read"
           /\ ops'[2].op = "fetch"
           /\ ops'[3].op = "write"
           /\ ops'[3].date = Today(now)
           /\ ops'[3].interval = resp'.interval
           /\ ops'[4].op = "upsert"
           /\ ops'[4].date = Today(now)
           /\ resp'.status = "ok"
           /\ Len(resp'.candles) > 0
           /\ Ascending(resp'.candles)
           /\ ops'[3].out = "ok"
                => /\ <<resp'.symbol, Today(now)>> \in DOMAIN intraday'
                   /\ intraday'[<<resp'.symbol, Today(now)>>].interval = resp'.interval
                   /\ Served(intraday'[<<resp'.symbol, Today(now)>>].candles)
                        = resp'.candles
           /\ ops'[4].out = "ok"
                => /\ <<resp'.symbol, "daily">> \in DOMAIN aggregate'
                   /\ StoredAt(aggregate'[<<resp'.symbol, "daily">>]) = now ]_vars

\* a cold request fetched two candles, stored them and upserted the daily one
C7_Witness ==
  /\ req.fn = "getIntradayPrices"
  /\ req.month = ""
  /\ Len(ops) = 4
  /\ ops[1].out = "Intraday cache miss"
  /\ ops[2].out = "series"
  /\ ops[3].out = "ok"
  /\ ops[4].out = "ok"
  /\ Len(resp.candles) = 2
  /\ IsoBefore(resp.candles[1].time, resp.candles[2].time)

\* this step handles a getRecentOpenDay request that passes validation
RecentStep ==
  /\ RequestStep
  /\ req'.fn = "getRecentOpenDay"
  /\ resp'.status # "invalid-argument"

\* C8: getRecentOpenDay(symbol, 15min) on a Monday, the store holding for the
\* symbol only the entry of the preceding Friday, interval 5min, stored on
\* that Friday with Friday's candles, returns those candles from the cache
\* with interval 5min and fetches nothing (the store answering every read).
C8_MondayServesFridayEntry ==
  [][ ( /\ RecentStep
        /\ req'.requested = "15min"
        /\ (now \div (24 * 60)) % 7 = 0
        /\ DOMAIN intraday = { <<resp'.symbol, Today(now - 3 * 24 * 60)>> }
        /\ LET entry == intraday[<<resp'.symbol, Today(now - 3 * 24 * 60)>>]
           IN /\ entry.interval = "5min"
              /\ Today(StoredAt(entry)) = Today(now - 3 * 24 * 60)
              /\ Len(entry.candles) > 0
              /\ \A k \in 1..Len(entry.candles) :
                   Today(entry.candles[k].time.seconds \div 60)
                     = Today(now - 3 * 24 * 60)
        /\ \A k \in Reads(ops') : ~ReadThrew(ops'[k]) )
        => /\ Fetches(ops') = {}
           /\ resp'.status = "ok"
           /\ resp'.interval = "5min"
           /\ resp'.candles =
                Served(intraday[<<resp'.symbol, Today(now - 3 * 24 * 60)>>].candles)
    ]_vars

\* the k-th probe the contract prescribes at instant t for a preferred interval
Others(preferred) ==
  SelectSeq(<<"15min", "60min", "30min", "5min", "1min">>, LAMBDA i : i # preferred)

ExpectedProbe(k, preferred, t) ==
  LET perDay == 1 + Len(Others(preferred))
      daysBack == (k - 1) \div perDay
      j == (k - 1) % perDay
  IN [date |-> Today(t - daysBack * 24 * 60),
      interval |-> IF j = 0 THEN preferred ELSE Others(preferred)[j]]

ExpectedProbes(preferred) == 6 * (1 + Len(Others(preferred)))

\* the read finds an entry it can use: servable, read, and not empty
Usable(store, symbol, rd, t) ==
  /\ Servable(store, symbol, rd, t)
  /\ ~ReadThrew(rd)
  /\ Len(store[EntryId(symbol, rd)].candles) > 0

Preferred(requested) ==
  IF requested \in {"1min", "5min", "15min", "30min", "60min"} THEN requested
  ELSE "60min"

\* C9: findRecentCachedData probes today, today-1, ..., today-5 in that order
\* and within a date the preferred interval, then 15min, 60min, 30min, 5min,
\* 1min without the preferred one; it returns at the first probe that yields
\* a non-empty candle list, hence from the most recent date with a usable entry.
C9_ProbeOrderFirstUsable ==
  [][ RecentStep =>
        LET n == Cardinality(Reads(ops'))
            preferred == Preferred(req'.requested)
        IN /\ Reads(ops') = 1..n
           /\ n >= 1
           /\ n <= ExpectedProbes(preferred)
           /\ \A k \in 1..n :
                /\ ops'[k].date = ExpectedProbe(k, preferred, now).date
                /\ ops'[k].interval = ExpectedProbe(k, preferred, now).interval
           /\ \A k \in 1..(n - 1) : ~Usable(intraday, resp'.symbol, ops'[k], now)
           /\ IF Len(ops') = n
              THEN /\ Usable(intraday, resp'.symbol, ops'[n], now)
                   /\ resp'.candles =
                        Served(intraday[EntryId(resp'.symbol, ops'[n])].candles)
              ELSE /\ n = ExpectedProbes(preferred)
                   /\ ~Usable(intraday, resp'.symbol, ops'[n], now)
                   /\ ops'[n + 1].op = "fetch" ]_vars

\* the resolver went through every interval of today and found yesterday's entry
C9_Witness ==
  /\ req.fn = "getRecentOpenDay"
  /\ resp.status = "ok"
  /\ Fetches(ops) = {}
  /\ Len(ops) > 6
  /\ IsHit(ops[Len(ops)])
  /\ ops[Len(ops)].date = Today(now - 24 * 60)
  /\ ops[Len(ops)].interval # Preferred(req.requested)
  /\ Len(resp.candles) > 0

\* C10: a getRecentOpenDay response reports the interval under which the
\* returned candles were stored or fetched: on a cache hit the interval field
\* of the entry read, which is also the interval of the probe that found it;
\* on a fetch the interval fetched and, if stored, stored under.
C10_ReportsActualInterval ==
  [][ (RecentStep /\ resp'.status = "ok") =>
        IF Fetches(ops') = {}
        THEN /\ resp'.interval =
                  intraday[EntryId(resp'.symbol, ops'[Len(ops')])].interval
             /\ resp'.interval = ops'[Len(ops')].interval
        ELSE /\ \A k \in Fetches(ops') : resp'.interval = ops'[k].interval
             /\ \A k \in Writes(ops') :
                  ops'[k].out = "ok"
                    => intraday'[EntryId(resp'.symbol, ops'[k])].interval
                         = resp'.interval ]_vars

\* a request for 15min was answered from an entry stored as 5min, and says so
C10_Witness ==
  /\ req.fn = "getRecentOpenDay"
  /\ req.requested = "15min"
  /\ resp.status = "ok"
  /\ Fetches(ops) = {}
  /\ resp.interval = "5min"
  /\ intraday[EntryId(resp.symbol, ops[Len(ops)])].interval = "5min"
  /\ Len(resp.candles) > 0

---------------------------------------------------------------------------
(* The resolver's bounds and frame, read off the last request and its trace *)

\* the last request was a getRecentOpenDay that passed validation
RecentDone == req.fn = "getRecentOpenDay" /\ resp.status # "invalid-argument"

\* the last request was a getIntradayPrices that passed validation
IntradayDone == req.fn = "getIntradayPrices" /\ resp.status # "invalid-argument"

DaysBack(t) == { Today(t - k * 24 * 60) : k \in 0..5 }

\* C11: findRecentCachedData ends after at most 6 x 5 = 30 cache probes,
\* all of them on the dates 0..5 days back and no (date, interval) pair probed
\* twice; it reports not found only after probing every one of the six dates.
C11_ProbesBounded ==
  RecentDone =>
    /\ Cardinality(Reads(ops)) <= 30
    /\ \A k \in Reads(ops) : ops[k].date \in DaysBack(req.at)
    /\ \A j, k \in Reads(ops) :
         (ops[j].date = ops[k].date /\ ops[j].interval = ops[k].interval) => j = k
    /\ Fetches(ops) # {}
         => /\ Cardinality(Reads(ops)) = 30
            /\ { ops[k].date : k \in Reads(ops) } = DaysBack(req.at)

\* the resolver gave up after 30 probes, one of which met an expired entry
C11_Witness ==
  /\ RecentDone
  /\ Cardinality(Reads(ops)) = 30
  /\ Fetches(ops) # {}
  /\ \E k \in Reads(ops) : ops[k].out = "Intraday cache expired"

\* C12: findRecentCachedData only reads the cache: the part of the trace it
\* produces is reads alone, the one fetch a request may make comes after it
\* has returned, and on every path (hit, miss, store read error) the stores
\* change only through a write or upsert the handler makes afterwards.
C12_ResolverOnlyReads ==
  [][ RecentStep =>
        LET n == Cardinality(Reads(ops'))
        IN /\ \A k \in 1..n : ops'[k].op = "read"
           /\ \A f \in Fetches(ops') : f = n + 1
           /\ (\A k \in Writes(ops') : ops'[k].out # "ok") => intraday' = intraday
           /\ (\A k \in Upserts(ops') : ops'[k].out # "ok") => aggregate' = aggregate
           /\ (Fetches(ops') = {} \/ resp'.status = "error")
                => /\ intraday' = intraday
                   /\ aggregate' = aggregate
                   /\ Writes(ops') = {}
                   /\ Upserts(ops') = {} ]_vars

\* the first probe met a store error, a later one hit, and the entry is still there
C12_Witness ==
  /\ RecentDone
  /\ Fetches(ops) = {}
  /\ Len(ops) > 1
  /\ ReadThrew(ops[1])
  /\ IsHit(ops[Len(ops)])
  /\ Len(resp.candles) > 0
  /\ EntryId(resp.symbol, ops[Len(ops)]) \in DOMAIN intraday

---------------------------------------------------------------------------
(* getRecentOpenDay after the resolver found nothing *)

\* C13: when findRecentCachedData reports not found, getRecentOpenDay makes
\* exactly one upstream fetch at the requested interval and, if candles come
\* back, writes them as today's intraday entry and upserts today's daily
\* candle before it returns them; the next getRecentOpenDay within the TTL is
\* answered from that entry without a fetch (the store accepting the write
\* and answering the reads).
C13_NotFoundFetchesAndCaches ==
  [][ RecentStep =>
        /\ Fetches(ops') # {}
             => LET n == Cardinality(Reads(ops'))
                IN /\ Fetches(ops') = {n + 1}
                   /\ ops'[n + 1].interval = Preferred(req'.requested)
                   /\ resp'.interval = Preferred(req'.requested)
                   /\ FetchedSeries(ops')
                        => /\ Len(ops') = n + 3
                           /\ ops'[n + 2].op = "write"
                           /\ ops'[n + 2].date = Today(now)
                           /\ ops'[n + 2].interval = Preferred(req'.requested)
                           /\ ops'[n + 3].op = "upsert"
                           /\ ops'[n + 3].date = Today(now)
                           /\ resp'.status = "ok"
                           /\ Len(resp'.candles) > 0
                           /\ ops'[n + 2].out = "ok"
                                => /\ <<resp'.symbol, Today(now)>> \in DOMAIN intraday'
                                   /\ Served(intraday'[<<resp'.symbol, Today(now)>>].candles)
                                        = resp'.candles
                                   /\ intraday'[<<resp'.symbol, Today(now)>>].interval
                                        = resp'.interval
        /\ ( /\ req.fn = "getRecentOpenDay"
             /\ FetchedSeries(ops)
             /\ Stored(ops)
             /\ resp'.symbol = resp.symbol
             /\ now - req.at <= (IF MarketOpenAt(now) THEN 15 ELSE 24 * 60)
             /\ \A k \in Reads(ops') : ~ReadThrew(ops'[k]) )
             => /\ Fetches(ops') = {}
                /\ resp'.status = "ok"
                /\ resp'.candles = resp.candles
                /\ resp'.interval = resp.interval
                /\ resp'.tradingDay = resp.tradingDay ]_vars

\* a second request was answered from a one-candle entry; only getRecentOpenDay
\* stores the latest day alone of a series that spans two days
C13_Witness ==
  /\ reqNo = 2
  /\ RecentDone
  /\ Fetches(ops) = {}
  /\ IsHit(ops[Len(ops)])
  /\ Len(resp.candles) = 1

---------------------------------------------------------------------------
(* Store and provider failures inside a request *)

WriteFailed(o) == \E k \in Writes(o) \cup Upserts(o) : o[k].out = "error"

\* the response carries what the request's fetch returned
ReturnsFetched(o, r) ==
  /\ r.status = "ok"
  /\ \E f \in Fetches(o) : r.candles = ResponseCandles(o[f].candles)

\* C14: when the intraday cache write or the daily upsert of a
\* getIntradayPrices or getRecentOpenDay request fails with a store error, the
\* request still succeeds and returns the candles it has just fetched.
C14_WriteFailureSwallowed ==
  (req.fn \in {"getIntradayPrices", "getRecentOpenDay"} /\ WriteFailed(ops))
    => /\ ReturnsFetched(ops, resp)
       /\ \A k \in Writes(ops) \cup Upserts(ops) : \E f \in Fetches(ops) : f < k

C14_Witness ==
  /\ RecentDone
  /\ \E k \in Writes(ops) : ops[k].out = "error"
  /\ Upserts(ops) # {}
  /\ ReturnsFetched(ops, resp)
  /\ Len(resp.candles) > 0
  /\ <<resp.symbol, Today(req.at)>> \notin DOMAIN intraday

FetchThrew(o) == \E k \in Fetches(o) : o[k].out = "throw"

\* C15: a store read that fails during the cache check is a cache miss to the
\* request: getIntradayPrices goes on to the upstream fetch for the same date
\* and interval, caches and returns what it fetched, and fails only if the
\* fetch fails; in getRecentOpenDay the failed probe is a miss of that probe,
\* and a request that no probe answers fetches and returns the result.
C15_ReadFailureIsMiss ==
  /\ (IntradayDone /\ ReadThrew(ops[1]))
       => /\ Fetches(ops) = {2}
          /\ ops[2].date = ops[1].date
          /\ ops[2].interval = ops[1].interval
          /\ ops[2].out # "throw" => (ReturnsFetched(ops, resp) /\ Writes(ops) = {3})
          /\ ops[2].out = "throw" <=> resp.status = "error"
  /\ (RecentDone /\ \E k \in Reads(ops) : ReadThrew(ops[k]))
       => /\ resp.status = "error" <=> FetchThrew(ops)
          /\ (\A k \in Reads(ops) : ~(IsHit(ops[k]) /\ Len(resp.candles) > 0))
               => /\ Cardinality(Fetches(ops)) = 1
                  /\ ~FetchThrew(ops) => ReturnsFetched(ops, resp)

C15_Witness ==
  /\ reqNo = 2
  /\ IntradayDone
  /\ ReadThrew(ops[1])
  /\ FetchedSeries(ops)
  /\ ReturnsFetched(ops, resp)
  /\ Stored(ops)

\* C16: when the upstream fetch fails (transport or HTTP failure, provider
\* error message), the request fails with the error, the fetch is the one
\* fetch and the last operation of the request, and no intraday or daily
\* document is written or modified; no request fails for another reason.
C16_FetchFailurePropagates ==
  [][ RequestStep =>
        /\ FetchThrew(ops')
             => /\ resp'.status = "error"
                /\ resp'.candles = <<>>
                /\ Cardinality(Fetches(ops')) = 1
                /\ ops'[Len(ops')].op = "fetch"
                /\ Writes(ops') = {}
                /\ Upserts(ops') = {}
                /\ intraday' = intraday
                /\ aggregate' = aggregate
        /\ resp'.status = "error" => FetchThrew(ops') ]_vars

C16_Witness ==
  /\ reqNo = 2
  /\ resp.status = "error"
  /\ FetchThrew(ops)
  /\ \E k \in Reads(ops) : /\ EntryId(resp.symbol, ops[k]) \in DOMAIN intraday
                            /\ ops[k].out = "Intraday cache expired"
  /\ DOMAIN aggregate # {}

ThrottlingNote == [kind |-> "note", series |-> <<>>]

\* C17: to a throttling note fetchIntradayPrices answers with the empty
\* sequence, not an error, and a request whose fetch came back empty succeeds
\* with an empty candle list, getRecentOpenDay with no trading day.
C17_ThrottledIsEmptySuccess ==
  /\ ~fetchIntradayPrices(ThrottlingNote).threw
  /\ fetchIntradayPrices(ThrottlingNote).val = <<>>
  /\ FetchedEmpty(ops)
       => /\ resp.status = "ok"
          /\ resp.candles = <<>>
          /\ resp.tradingDay = NoDay
          /\ Cardinality(Fetches(ops)) = 1

C17_Witness ==
  /\ RecentDone
  /\ FetchedEmpty(ops)
  /\ resp.status = "ok"
  /\ resp.candles = <<>>
  /\ resp.tradingDay = NoDay
  /\ Cardinality(Reads(ops)) = 30

---------------------------------------------------------------------------
(* Validation of the request *)

\* no symbol, the empty symbol, a symbol of white space
Blank(symbol) == symbol \in MissingSymbols

\* C18: a getIntradayPrices or getRecentOpenDay request whose symbol is
\* missing, empty or only white space is rejected with invalid-argument
\* before any store read, store write or upstream fetch; no other request is.
C18_BlankSymbolRejected ==
  req.fn \in {"getIntradayPrices", "getRecentOpenDay"}
    => /\ Blank(req.symbol) => (resp.status = "invalid-argument" /\ ops = <<>>)
       /\ resp.status = "invalid-argument" => Blank(req.symbol)
       /\ resp.fn = req.fn

C18_Witness ==
  /\ reqNo = 2
  /\ req.fn = "getRecentOpenDay"
  /\ req.symbol = " "
  /\ resp.status = "invalid-argument"
  /\ ops = <<>>
  /\ DOMAIN intraday # {}

\* an interval was asked for and is none of the five
Unrecognized(requested) ==
  requested # "" /\ requested \notin {"1min", "5min", "15min", "30min", "60min"}

\* the request goes through with 60min: first lookup, fetch, write, stored entry
Uses60min ==
  /\ resp.status # "invalid-argument"
  /\ ops # <<>>
  /\ ops[1].op = "read"
  /\ ops[1].interval = "60min"
  /\ \A k \in Fetches(ops) \cup Writes(ops) : ops[k].interval = "60min"
  /\ \A k \in Writes(ops) :
        ops[k].out = "ok"
          => /\ EntryId(resp.symbol, ops[k]) \in DOMAIN intraday
             /\ intraday[EntryId(resp.symbol, ops[k])].interval = "60min"

\* C19 as stated: in getIntradayPrices and getRecentOpenDay a requested
\* interval that is none of 1min, 5min, 15min, 30min, 60min is replaced by
\* 60min and the request is not rejected; the cache lookup, the upstream
\* fetch, the cache write and the response all use 60min.
C19_UnknownIntervalIs60min ==
  (req.fn \in {"getIntradayPrices", "getRecentOpenDay"} /\ Unrecognized(req.requested))
    => /\ Uses60min
       /\ resp.interval = "60min"

\* C19, amended: as above, except that a getRecentOpenDay answered from a
\* cached entry reports the interval of that entry, which the fallback search
\* may have found at another interval than 60min.
C19_UnknownIntervalIs60minOrFound ==
  (req.fn \in {"getIntradayPrices", "getRecentOpenDay"} /\ Unrecognized(req.requested))
    => /\ Uses60min
       /\ (req.fn = "getIntradayPrices" \/ Fetches(ops) # {}) => resp.interval = "60min"
       /\ (req.fn = "getRecentOpenDay" /\ Fetches(ops) = {})
            => /\ IsHit(ops[Len(ops)])
               /\ resp.interval = ops[Len(ops)].interval

C19_Witness ==
  /\ req.fn = "getRecentOpenDay"
  /\ Unrecognized(req.requested)
  /\ FetchedSeries(ops)
  /\ Stored(ops)
  /\ resp.interval = "60min"
  /\ intraday[<<resp.symbol, Today(req.at)>>].interval = "60min"

---------------------------------------------------------------------------
(* The daily candle of a sequence of candles *)

\* the volumes of the first n candles added up
RECURSIVE VolumeOfFirst(_, _)
VolumeOfFirst(candles, n) ==
  IF n = 0 THEN 0 ELSE VolumeOfFirst(candles, n - 1) + candles[n].volume

\* C20: for a non-empty candle sequence aggregateToDaily returns the candle
\* with the first candle's open and time, the last candle's close, the
\* greatest high, the least low and the sum of the volumes; for the empty
\* sequence it returns null.
C20_DailyCandle ==
  daily.done =>
    LET cs == daily.candles
        d == daily.result.val
    IN IF cs = <<>> THEN daily.result.isNull
       ELSE /\ ~daily.result.isNull
            /\ d.open = cs[1].open
            /\ d.time = cs[1].time
            /\ d.close = cs[Len(cs)].close
            /\ \A k \in 1..Len(cs) : cs[k].high <= d.high /\ d.low <= cs[k].low
            /\ \E k \in 1..Len(cs) : cs[k].high = d.high
            /\ \E k \in 1..Len(cs) : cs[k].low = d.low
            /\ d.volume = VolumeOfFirst(cs, Len(cs))
            /\ DOMAIN d = {"time", "open", "high", "low", "close", "volume"}

\* {open:10,high:12,low:9,close:11,volume:100}, {open:11,high:13,low:10,
\* close:12,volume:200} give {open:10, high:13, low:9, close:12, volume:300}
C20_Witness ==
  /\ daily.done
  /\ daily.candles =
       << [time |-> 14 * 60 + 30, open |-> 10, high |-> 12, low |-> 9, close |-> 11,
           volume |-> 100],
          [time |-> 14 * 60 + 45, open |-> 11, high |-> 13, low |-> 10, close |-> 12,
           volume |-> 200] >>
  /\ daily.result =
       Some([time |-> 14 * 60 + 30, open |-> 10, high |-> 13, low |-> 9,
             close |-> 12, volume |-> 300])

---------------------------------------------------------------------------
(* Weekly and monthly candles of a daily map *)

\* the Thursday of the week, Monday to Sunday, that a day lies in
ThursdayOf(dateStr) == (NewDate(dateStr) \div MinPerWeek) * MinPerWeek + 3 * MinPerDay

\* ISO 8601: the week-year is the year of the week's Thursday, the week number
\* counts the Thursdays of that year
IsoWeekYear(dateStr) == getFullYear(ThursdayOf(dateStr))
IsoWeekNumber(dateStr) ==
  1 + (ThursdayOf(dateStr) - DateAt(IsoWeekYear(dateStr), 1, 1)) \div MinPerWeek
IsoLabel(dateStr) == WeekString(IsoWeekYear(dateStr), IsoWeekNumber(dateStr))

SameIsoWeek(d1, d2) == NewDate(d1) \div MinPerWeek = NewDate(d2) \div MinPerWeek

\* the candles of the entries of a map that satisfy In, in the map's order
Members(dailyPrices, In(_)) ==
  LET picked == SelectSeq(dailyPrices, LAMBDA e : In(e.key))
  IN [i \in 1..Len(picked) |-> picked[i].val]

\* the OHLCV fold of a non-empty sequence of candles, restated
Fold(candles) ==
  [ time |-> candles[1].time,
    open |-> candles[1].open,
    close |-> candles[Len(candles)].close,
    high |-> CHOOSE h \in { candles[i].high : i \in 1..Len(candles) } :
               \A i \in 1..Len(candles) : candles[i].high <= h,
    low |-> CHOOSE l \in { candles[i].low : i \in 1..Len(candles) } :
              \A i \in 1..Len(candles) : l <= candles[i].low,
    volume |-> VolumeOfFirst(candles, Len(candles)) ]

Keys(map) == { map[i].key : i \in 1..Len(map) }

\* C21: aggregateToWeekly puts two daily entries into one weekly bucket if and
\* only if their dates lie in the same ISO 8601 week, and labels each bucket
\* YYYY-Www with the ISO week number and that week's ISO week-year, also
\* around a turn of the year: the output has one key per ISO week of the
\* input, its ISO label, holding the fold of that week's entries.
C21_WeeklyBucketsAreIsoWeeks ==
  ~rollup.weekly.isNull =>
    LET given == rollup.dailyPrices
        out == rollup.weekly.val
    IN /\ Keys(out) = { IsoLabel(k) : k \in Keys(given) }
       /\ \A i, j \in 1..Len(out) : out[i].key = out[j].key => i = j
       /\ \A k \in Keys(given) : \A i \in 1..Len(out) :
             out[i].key = IsoLabel(k)
               => out[i].val = Fold(Members(given, LAMBDA d : SameIsoWeek(d, k)))

\* the first seven characters of a day's key: its year and month
MonthOf(dateStr) == <<"month", dateStr.y, dateStr.m>>

RECURSIVE TotalVolume(_, _)
TotalVolume(map, n) ==
  IF n = 0 THEN 0 ELSE TotalVolume(map, n - 1) + map[n].val.volume

\* C22: aggregateToMonthly partitions the daily map by the first seven
\* characters (YYYY-MM) of each key: the output has exactly one key per month
\* present in the input, each monthly candle is the fold of the entries of
\* its month, and every daily entry contributes to exactly one of them.
C22_MonthlyPartition ==
  ~rollup.monthly.isNull =>
    LET given == rollup.dailyPrices
        out == rollup.monthly.val
    IN /\ Keys(out) = { MonthOf(k) : k \in Keys(given) }
       /\ \A i, j \in 1..Len(out) : out[i].key = out[j].key => i = j
       /\ \A i \in 1..Len(out) :
             out[i].val = Fold(Members(given, LAMBDA d : MonthOf(d) = out[i].key))
       /\ TotalVolume(out, Len(out)) = TotalVolume(given, Len(given))

\* three days of two months gave two monthly candles
C22_Witness ==
  /\ ~rollup.monthly.isNull
  /\ Len(rollup.dailyPrices) = 3
  /\ Len(rollup.monthly.val) = 2
  /\ \E i \in 1..2 : rollup.monthly.val[i].val.volume >= 200
                        /\ rollup.monthly.val[i].val.high = 13
                        /\ rollup.monthly.val[i].val.low = 9

RollupStep == rollup'.calls = rollup.calls + 1

---------------------------------------------------------------------------
(* Market hours *)

\* the New York wall clock at an instant: day of the week (0 = Monday) and
\* minute of the day
LocalDay(t) == ((t - 5 * 60) \div (24 * 60)) % 7
LocalMinute(t) == (t - 5 * 60) % (24 * 60)

\* C24: isMarketOpen is true if and only if the exchange-local day is Monday
\* to Friday and the exchange-local time t satisfies 09:30 <= t < 16:00.
C24_MarketHours ==
  market.calls > 0 =>
    ( market.open <=> /\ LocalDay(market.at) \in 0..4
                      /\ 9 * 60 + 30 <= LocalMinute(market.at)
                      /\ LocalMinute(market.at) < 16 * 60 )

\* open at 15:59 on Friday, closed a minute later
C24_Witness ==
  /\ market.calls = 2
  /\ ~market.open
  /\ LocalDay(market.at) = 4
  /\ LocalMinute(market.at) = 16 * 60
  /\ isMarketOpen(market.at - 1)

---------------------------------------------------------------------------
(* What a cache write does to the entries already stored *)

\* C25: intraday entries are keyed by symbol, date and interval: a request
\* that caches candles for one interval leaves an entry of the same symbol
\* and date cached for another interval stored as it was, and an entry that
\* could be served before the request can be served after it.
C25_OtherIntervalSurvives ==
  [][ RequestStep =>
        \A k \in Writes(ops') :
          LET id == EntryId(resp'.symbol, ops'[k])
              rd == [date |-> ops'[k].date, interval |-> intraday[id].interval]
          IN ( /\ ops'[k].out = "ok"
               /\ id \in DOMAIN intraday
               /\ intraday[id].interval # ops'[k].interval )
               => /\ id \in DOMAIN intraday'
                  /\ intraday'[id] = intraday[id]
                  /\ Servable(intraday, resp'.symbol, rd, now)
                       => Servable(intraday', resp'.symbol, rd, now) ]_vars

\* C26: a refresh of an intraday key replaces the entry as a whole: after it
\* the stored candles are exactly the sequence just fetched, the stored
\* interval is the one fetched and lastUpdated is the time of the refresh.
C26_RefreshReplacesEntry ==
  \A k \in Writes(ops) :
    ops[k].out = "ok"
      => LET id == EntryId(resp.symbol, ops[k])
         IN /\ id \in DOMAIN intraday
            /\ \E f \in Fetches(ops) :
                 /\ f < k
                 /\ Served(intraday[id].candles) = ResponseCandles(ops[f].candles)
                 /\ intraday[id].interval = ops[f].interval
            /\ intraday[id].interval = ops[k].interval
            /\ intraday[id].lastUpdated = [seconds |-> req.at * 60, nanoseconds |-> 0]
            /\ intraday[id].symbol = resp.symbol
            /\ intraday[id].date = ops[k].date
            /\ DOMAIN intraday[id] = {"date", "interval", "symbol", "candles", "lastUpdated"}

\* the second request found the entry of the first, of another interval, and
\* wrote its own candles over it
C26_Witness ==
  /\ reqNo = 2
  /\ Stored(ops)
  /\ ops[1].out = "Interval mismatch in cache"
  /\ \E k \in Writes(ops) : ops[k].date = ops[1].date
  /\ Len(intraday[EntryId(resp.symbol, ops[1])].candles) = 1

\* C27: a getIntradayPrices request that names a month never modifies the
\* daily aggregate entry; a request upserts the daily candle exactly when it
\* names no month and fetched at least one candle.
C27_MonthRequestsLeaveDaily ==
  [][ RequestStep =>
        /\ req'.month # NoMonth => (Upserts(ops') = {} /\ aggregate' = aggregate)
        /\ Upserts(ops') # {} <=> (req'.month = NoMonth /\ FetchedSeries(ops'))
        /\ Upserts(ops') = {} => aggregate' = aggregate ]_vars

\* a request for a month fetched and cached candles beside a daily entry
C27_Witness ==
  /\ IntradayDone
  /\ req.month # NoMonth
  /\ FetchedSeries(ops)
  /\ Stored(ops)
  /\ Upserts(ops) = {}
  /\ DOMAIN aggregate # {}

---------------------------------------------------------------------------
(* The daily entry after updateDailyPrice *)

\* the days updateDailyPrice has written to the daily entry since its prices
\* map was last written as a whole, with the candle written for each
Upserted(store) ==
  IF AggregateId("daily") \in DOMAIN store THEN store[AggregateId("daily")].dotted
  ELSE EmptyMap

\* C28: after updateDailyPrice(symbol, D, c), a getCachedAggregatePrices(symbol,
\* daily) within 24 hours returns a prices map that maps D to c and still has
\* every key the entry's map had before.
C28_UpsertedDayIsRead ==
  [][ ( /\ AggregateReadStep
        /\ aggRead'.granularity = "daily"
        /\ ~aggRead'.threw
        /\ Upserted(aggregate) # EmptyMap
        /\ Age(aggregate[AggregateId("daily")], now) <= 24 * 60 )
        => /\ aggRead'.result.kind = "map"
           /\ \A D \in DOMAIN Upserted(aggregate) :
                /\ D \in DOMAIN aggRead'.result.val
                /\ aggRead'.result.val[D] = Upserted(aggregate)[D]
           /\ \A k \in DOMAIN aggregate[AggregateId("daily")].prices :
                k \in DOMAIN aggRead'.result.val ]_vars

---------------------------------------------------------------------------
(* Concurrent requests *)

\* the request missed the cache and is past its fetch
PastFetch(me) ==
  \/ me.pc \in {"caching", "writing", "upserting"}
  \/ me.pc = "done" /\ me.log # "Intraday cache hit"

CallsOf(p) == { k \in 1..Len(flight.calls) : flight.calls[k].proc = p }

\* C29: there is no single-flight coordination: every request that missed
\* the cache issues its own upstream fetch for its key, whatever the other
\* requests are doing, so that N concurrent requests for one cold key make N
\* upstream calls.
C29_EveryMissFetches ==
  /\ \A p \in Procs :
       IF PastFetch(flight.procs[p])
       THEN /\ Cardinality(CallsOf(p)) = 1
            /\ \A k \in CallsOf(p) :
                 /\ flight.calls[k].date = flight.procs[p].date
                 /\ flight.calls[k].interval = flight.procs[p].interval
       ELSE CallsOf(p) = {}
  /\ \A k \in 1..Len(flight.calls) : flight.calls[k].proc \in Procs

\* every request found the key cold and has called the provider for it
C29_Witness ==
  /\ Len(flight.calls) = MaxConcurrent
  /\ \A j, k \in 1..Len(flight.calls) :
       /\ flight.calls[j].date = flight.calls[k].date
       /\ flight.calls[j].interval = flight.calls[k].interval
  /\ \A p \in Procs : /\ flight.procs[p].log = "Intraday cache miss"
                       /\ flight.procs[p].pc = "caching"
  /\ intraday = EmptyMap

\* C30: under any interleaving of concurrent refreshes of one intraday key
\* the entry in the store is, as a whole, the document of the request whose
\* write was applied last: candles, interval and lastUpdated are all its own.
C30_LastWriterWins ==
  flight.lastWrite # 0 =>
    LET me == flight.procs[flight.lastWrite]
        id == <<"AAPL", me.date>>
    IN /\ id \in DOMAIN intraday
       /\ Served(intraday[id].candles) = ResponseCandles(me.prices)
       /\ intraday[id].interval = me.interval
       /\ intraday[id].lastUpdated = [seconds |-> me.builtAt * 60, nanoseconds |-> 0]
       /\ intraday[id].date = me.date
       /\ intraday[id].symbol = "AAPL"

\* two requests of different intervals both wrote the key; the write applied
\* last belongs to the request that built its document first
C30_Witness ==
  /\ \A p \in Procs : flight.procs[p].pc \in {"upserting", "done"}
                       /\ flight.procs[p].builtAt > 0
  /\ flight.lastWrite # 0
  /\ \E q \in Procs :
       /\ q # flight.lastWrite
       /\ flight.procs[q].interval # flight.procs[flight.lastWrite].interval
       /\ flight.procs[q].builtAt > flight.procs[flight.lastWrite].builtAt
       /\ Len(flight.procs[q].prices) > 0
  /\ intraday[<<"AAPL", flight.procs[flight.lastWrite].date>>].interval
       = flight.procs[flight.lastWrite].interval

---------------------------------------------------------------------------
(* Concurrent daily upserts *)

\* the call has returned and its set() was accepted by the store
Upserting(p) == upserts[p].pc = "done" /\ ~upserts[p].threw

\* C31: under any interleaving of two concurrent daily upserts of the same
\* symbol for different dates D1 and D2, the daily entry afterwards has both
\* period keys in its prices map, each with the candle its request wrote.
C31_BothUpsertsKept ==
  \A p, q \in Procs :
    (p # q /\ Upserting(p) /\ Upserting(q) /\ upserts[p].date # upserts[q].date)
      => /\ AggregateId("daily") \in DOMAIN aggregate
         /\ LET prices == PricesOf(aggregate[AggregateId("daily")])
            IN /\ prices.kind = "map"
               /\ \A r \in {p, q} :
                    /\ upserts[r].date \in DOMAIN prices.val
                    /\ prices.val[upserts[r].date] = StoreCandle(upserts[r].candle)

---------------------------------------------------------------------------
(* Open and close of a weekly or monthly candle *)

\* the entries of a daily map that a rollup put under the key `period`
EntriesOf(dailyPrices, KeyOf(_), period) ==
  { i \in 1..Len(dailyPrices) : KeyOf(dailyPrices[i].key) = period }

\* the entry of the earliest day, of the latest day, among the entries es
Earliest(dailyPrices, es) ==
  CHOOSE i \in es : \A j \in es : NewDate(dailyPrices[i].key) <= NewDate(dailyPrices[j].key)
Latest(dailyPrices, es) ==
  CHOOSE i \in es : \A j \in es : NewDate(dailyPrices[j].key) <= NewDate(dailyPrices[i].key)

OpensAndCloses(dailyPrices, out, KeyOf(_)) ==
  \A g \in 1..Len(out) :
    LET es == EntriesOf(dailyPrices, KeyOf, out[g].key)
    IN /\ es # {}
       /\ out[g].val.open = dailyPrices[Earliest(dailyPrices, es)].val.open
       /\ out[g].val.close = dailyPrices[Latest(dailyPrices, es)].val.close

\* C32: in every weekly and monthly candle that aggregateToWeekly and
\* aggregateToMonthly produce, open is the open of the chronologically
\* earliest daily candle of the period and close is the close of the
\* chronologically latest one, in whatever order the daily map lists its keys.
C32_OpenEarliestCloseLatest ==
  /\ ~rollup.weekly.isNull
       => OpensAndCloses(rollup.dailyPrices, rollup.weekly.val, weekKey)
  /\ ~rollup.monthly.isNull
       => OpensAndCloses(rollup.dailyPrices, rollup.monthly.val, monthKey)

---------------------------------------------------------------------------
(* The candles of the most recent open day *)

\* the calendar day of an instant, as the Date getters of the process give it
CalendarDay(t) == t \div (24 * 60)

\* C33: getRecentOpenDayCandles returns exactly those candles of the fetched
\* ascending series that fall on the calendar day of its last candle, in
\* their original order; the result is empty if and only if the fetch
\* returned no candles, and otherwise it contains the last candle.
C33_CandlesOfLastDay ==
  (openDay.done /\ ~openDay.fetched.threw) =>
    LET all == openDay.fetched.val
        out == openDay.result.val
    IN /\ ~openDay.result.threw
       /\ out = <<>> <=> all = <<>>
       /\ all # <<>> =>
            /\ out = SelectSeq(all, LAMBDA c :
                                     CalendarDay(c.time) = CalendarDay(all[Len(all)].time))
            /\ out[Len(out)] = all[Len(all)]

\* a series of Thursday's last bar and two bars of Friday gave the two of Friday
C33_Witness ==
  /\ openDay.done
  /\ ~openDay.result.threw
  /\ Len(openDay.fetched.val) = 3
  /\ Len(openDay.result.val) = 2
  /\ openDay.result.val = SubSeq(openDay.fetched.val, 2, 3)
  /\ CalendarDay(openDay.fetched.val[1].time) = 3
  /\ CalendarDay(openDay.fetched.val[3].time) = 4

---------------------------------------------------------------------------
(* Freshness of an entry as time passes *)

\* the last read was answered by the store and reported the entry expired
ReportsStale == ~fresh.read.threw /\ fresh.read.log = "Intraday cache expired"

\* C34: freshness of an intraday entry is monotone in time: as long as the
\* entry is not rewritten, once a read has reported it stale every later read
\* of the same symbol, date and interval also reports it stale.
C34_StaleStaysStale ==
  (~fresh.read.threw /\ fresh.read.before # {}) => ReportsStale

\* C34, amended: as long as the entry is not rewritten, once a read has
\* reported it stale, every later read of the same key made while the market
\* is open reports it stale, and so does every later read when the earlier
\* one was made while the market was closed; a read after the close may
\* report fresh an entry that a read during market hours reported stale.
C34_StaleStaysStaleWhileOpen ==
  \A e \in fresh.read.before :
    (~fresh.read.threw /\ (isMarketOpen(fresh.read.at) \/ ~isMarketOpen(e.at)))
      => ReportsStale

\* an entry found expired during market hours is found expired again before
\* the close
C34_Witness ==
  /\ ReportsStale
  /\ isMarketOpen(fresh.read.at)
  /\ \E e \in fresh.read.before : isMarketOpen(e.at) /\ e.at < fresh.read.at
  /\ fresh.read.date \in {intraday[id].date : id \in DOMAIN intraday}

---------------------------------------------------------------------------
(* Requests served from the cache *)

\* the request was answered with the candles of the entry its last read hit
ServedFromCache(r, o) ==
  /\ r.status = "ok"
  /\ o # <<>>
  /\ o[Len(o)].op = "read"
  /\ o[Len(o)].out = "Intraday cache hit"

\* C35: a request served from the cache (a hit in getIntradayPrices, or a hit
\* of findRecentCachedData in getRecentOpenDay) leaves the store unchanged:
\* it fetches nothing, writes no document and does not refresh lastUpdated,
\* so that the age of an entry counts from its last write.
C35_HitLeavesStore ==
  [][ (RequestStep /\ ServedFromCache(resp', ops'))
        => /\ Fetches(ops') = {}
           /\ Writes(ops') = {}
           /\ Upserts(ops') = {}
           /\ DOMAIN intraday' = DOMAIN intraday
           /\ \A id \in DOMAIN intraday :
                /\ intraday'[id].lastUpdated = intraday[id].lastUpdated
                /\ intraday'[id] = intraday[id]
           /\ aggregate' = aggregate ]_vars

\* getRecentOpenDay, its first probe not a hit, has answered from an entry
\* written before the clock moved
C35_Witness ==
  /\ reqNo = 2
  /\ ServedFromCache(resp, ops)
  /\ Len(resp.candles) > 0
  /\ EntryId(resp.symbol, ops[Len(ops)]) \in DOMAIN intraday
  /\ Age(intraday[EntryId(resp.symbol, ops[Len(ops)])], req.at) > 0
  /\ req.fn = "getRecentOpenDay"
  /\ Len(ops) > 1

---------------------------------------------------------------------------
(* The date key of an entry and the dates of its candles *)

\* the calendar dates, as toISOString spells them, of the candles stored
CandleDates(doc) ==
  { <<"date", ((doc.candles[k].time.seconds \div 60) \div (24 * 60)), "">> :
      k \in 1..Len(doc.candles) }

\* an entry stored under a day (not under a month)
DayEntry(id) == id[2][1] = "date"

\* C36: every intraday entry that getIntradayPrices (without month) or
\* getRecentOpenDay stores under the date key D holds only candles whose own
\* calendar date is D, so that the tradingDay reported for a cached entry is
\* the date key it was stored under.
C36_EntryHoldsItsDay ==
  /\ \A id \in DOMAIN intraday :
       DayEntry(id) => CandleDates(intraday[id]) \subseteq {id[2]}
  /\ (RecentDone /\ ServedFromCache(resp, ops))
       => resp.tradingDay = ops[Len(ops)].date

---------------------------------------------------------------------------
(* The candles behind the daily candle of today *)

\* C37: the daily candle that getIntradayPrices or getRecentOpenDay upserts
\* under today's date is aggregated only from candles whose own calendar
\* date is today: open, high, low, close and volume are those of the fold of
\* today's candles of the fetched series, and candles of earlier sessions
\* contribute to none of them.
C37_DailyCandleOfToday ==
  \A k \in Upserts(ops) :
    ops[k].out = "ok"
      => \A f \in Fetches(ops) :
           LET D == ops[k].date
               todays == SelectSeq(ops[f].candles, LAMBDA c : Today(c.time) = D)
               stored == Upserted(aggregate)[D]
           IN /\ todays # <<>>
              /\ stored.open = Fold(todays).open
              /\ stored.high = Fold(todays).high
              /\ stored.low = Fold(todays).low
              /\ stored.close = Fold(todays).close
              /\ stored.volume = Fold(todays).volume

---------------------------------------------------------------------------
(* Volume through the rollups *)

\* the volumes of the entries es of a daily map added up
RECURSIVE VolumeOver(_, _)
VolumeOver(dailyPrices, es) ==
  IF es = {} THEN 0
  ELSE LET i == CHOOSE i \in es : TRUE
       IN dailyPrices[i].val.volume + VolumeOver(dailyPrices, es \ {i})

Conserves(dailyPrices, out, KeyOf(_)) ==
  /\ TotalVolume(out, Len(out)) = TotalVolume(dailyPrices, Len(dailyPrices))
  /\ \A i \in 1..Len(dailyPrices) :
       Cardinality({ g \in 1..Len(out) : out[g].key = KeyOf(dailyPrices[i].key) }) = 1
  /\ \A g \in 1..Len(out) :
       out[g].val.volume =
         VolumeOver(dailyPrices, EntriesOf(dailyPrices, KeyOf, out[g].key))

\* C38: rollups conserve volume and lose no day: for every daily map the
\* volumes of aggregateToWeekly's output add up to the volumes of the daily
\* map, and likewise for aggregateToMonthly; every daily entry is counted in
\* exactly one weekly and exactly one monthly candle.
C38_RollupsConserveVolume ==
  /\ ~rollup.weekly.isNull
       => Conserves(rollup.dailyPrices, rollup.weekly.val, weekKey)
  /\ ~rollup.monthly.isNull
       => Conserves(rollup.dailyPrices, rollup.monthly.val, monthKey)

\* three days of volumes 100, 200 and 200, two of them of one month: three
\* weekly candles of those volumes, two monthly candles of 300 and 200
C38_Witness ==
  /\ ~rollup.weekly.isNull
  /\ ~rollup.monthly.isNull
  /\ Len(rollup.dailyPrices) = 3
  /\ TotalVolume(rollup.dailyPrices, 3) = 500
  /\ Len(rollup.weekly.val) = 3
  /\ TotalVolume(rollup.weekly.val, 3) = 500
  /\ Len(rollup.monthly.val) = 2
  /\ { rollup.monthly.val[g].val.volume : g \in 1..2 } = {300, 200}

---------------------------------------------------------------------------
(* Well-formed candles through the fold *)

WellFormed(c) ==
  /\ c.low <= c.open
  /\ c.open <= c.high
  /\ c.low <= c.close
  /\ c.close <= c.high
  /\ c.volume >= 0

WellFormedMap(map) == \A i \in 1..Len(map) : WellFormed(map[i].val)

\* C39: the OHLCV fold preserves well-formedness: if every input candle
\* satisfies low <= open <= high and low <= close <= high with volume >= 0,
\* the candle aggregateToDaily returns satisfies the same inequalities, and
\* so does every weekly and monthly candle built with it.
C39_FoldKeepsWellFormed ==
  /\ ( /\ daily.done
       /\ ~daily.result.isNull
       /\ \A k \in 1..Len(daily.candles) : WellFormed(daily.candles[k]) )
       => WellFormed(daily.result.val)
  /\ (~rollup.weekly.isNull /\ WellFormedMap(rollup.dailyPrices))
       => WellFormedMap(rollup.weekly.val)
  /\ (~rollup.monthly.isNull /\ WellFormedMap(rollup.dailyPrices))
       => WellFormedMap(rollup.monthly.val)

\* three well-formed candles, the first trading above the other two: the
\* daily candle opens at 14, spans 9 to 15 and closes at 12
C39_Witness ==
  /\ daily.done
  /\ Len(daily.candles) = 3
  /\ \A k \in 1..3 : WellFormed(daily.candles[k])
  /\ daily.candles[1].low = 13
  /\ ~daily.result.isNull
  /\ WellFormed(daily.result.val)
  /\ daily.result.val.open = 14
  /\ daily.result.val.high = 15
  /\ daily.result.val.low = 9
  /\ daily.result.val.close = 12

====
